---- MODULE Spec2Model ----
(***************************************************************************)
(* Transaction / segment tracking engine of mc-telemetry-driver.           *)
(*                                                                         *)
(* One transaction of one adapter is modelled.  The adapter and the        *)
(* package-level logLevel are fixed at Init and never change.  Goroutines  *)
(* call the adapter's methods; a method that locks the segment container   *)
(* mutex is split at the lock (Lock -> body with the deferred Unlock),     *)
(* everything else a method does is one step.  The arguments of            *)
(* a call are locals of the calling goroutine, so they are drawn where the *)
(* body runs, the first point at which they can touch shared state.        *)
(*                                                                         *)
(* `out' is the backend record stream (log lines, zerolog events, vendor   *)
(* calls) in the order they were written.                                  *)
(***************************************************************************)
EXTENDS Integers, Sequences, FiniteSets, TLC

\* ------------------------------------------------------------------ bounds
MaxId == 1
NumNames == 1
NumVals == 2
NumProcs == 2
MaxOut == 3
MaxPayload == 2
ErrorBytesSize == 1
MainN == 2
MaxCalls == 2

\* -------------------------------------------------------------- value sets
\* segment ids are strings in the code: the empty string, which the local
\* adapter's Error and Info treat as "no segment", and the others
EmptyId == 0
Ids == 1..MaxId
NoId == -1
\* the ids the callers of one run use: non-empty ones, or the empty one
IdUniverses == {Ids, {EmptyId}}
Names == 1..NumNames
NoName == 0
Keys == {"k"}
Vals == 1..NumVals
Procs == 1..NumProcs
NoProc == 0
Workers == 1..MainN

LocalAdapter == "LocalTransaction"
ZeroLogAdapter == "ZeroLogTransaction"
APMAdapter == "APMTransaction"
OldZeroLogAdapter == "ZeroLogTransaction/part_000"
NopAdapter == "NopTransaction"
Adapters == {LocalAdapter, ZeroLogAdapter, APMAdapter, OldZeroLogAdapter}
LogAdapters == {LocalAdapter, ZeroLogAdapter}

logLevelDebug == "debug"
logLevelError == "error"
logLevelInfo == "info"
LogLevels == {logLevelDebug, logLevelError, logLevelInfo}

newRelicZerologError == "error"
newRelicZerologInfo == "info"
levelInfo == "info"
levelError == "error"

\* a payload source: its length in bytes and whether reading it fails
\* and what its text is ("message": a caller's text)
Payloads ==
  {[len |-> l, fail |-> FALSE, text |-> "message"] : l \in 0..MaxPayload}
    \cup {[len |-> 0, fail |-> TRUE, text |-> "message"]}
NoPayload == [len |-> 0, fail |-> FALSE, text |-> "none"]

\* trace ids and process ids are strings; both fields of a transaction are
\* the empty string until they are set
EmptyString == ""
Traces == {EmptyString, "trace-1"}
ProcessIDs == {EmptyString, "process-1"}
\* a record that has no such field
NoField == "(no field)"
\* a *newrelic.Segment is known by the position in the stream of the
\* StartSegment call that returned it; NoSeg: no vendor segment
NoSeg == 0

\* ------------------------------------------------------------------- state
VARIABLES
  adapter,                \* which Transaction implementation is in use
  configLogLevel,         \* the configured telemetry.logLevel
  logLevel,               \* package variable logLevel
  segments,               \* segmentContainer.segments
  attributes,             \* segmentContainer.attributes
  segmentsStartWasLogged, \* segmentContainer.segmentsStartWasLogged
  txAttributes,           \* transaction attributes (t.attributes)
  trace,                  \* t.trace
  processID,              \* t.processID
  other,                  \* a second transaction of the same adapter
  pending,                \* per goroutine: the call it is in the middle of
  mutex,                  \* segmentContainer.mutex: NoProc or the holder
  pc,                     \* per goroutine: "idle", or "crit" inside a locked body
  step,                   \* per worker of main: calls already made
  out,                    \* the backend record stream
  panicked,               \* the process died of a runtime panic
  periodStarts,           \* history: per open id, the positions in out of the
                          \*   start records written in its current open period
  msgCalled,              \* history: per open id, Error or an Info that was
                          \*   not suppressed was called in its current open period
  last                    \* history: the call that returned last

vars ==
  <<adapter, configLogLevel, logLevel, segments, attributes, segmentsStartWasLogged,
    txAttributes, trace, processID, other, pending, mutex, pc, step, out, panicked,
    periodStarts, msgCalled, last>>

\* -------------------------------------------------------------------- maps
\* A Go map is a function together with its nil-ness: reading or deleting
\* from a nil map is harmless, assigning into it panics.
EmptyFn == [x \in {} |-> 0]
MakeMap == [nil |-> FALSE, m |-> EmptyFn]
NilMap == [nil |-> TRUE, m |-> EmptyFn]
Has(mp, k) == k \in DOMAIN mp.m
Get(mp, k, zero) == IF k \in DOMAIN mp.m THEN mp.m[k] ELSE zero
Put(mp, k, v) ==
  [mp EXCEPT !.m = [x \in (DOMAIN mp.m) \cup {k} |-> IF x = k THEN v ELSE mp.m[x]]]
Delete(mp, k) == [mp EXCEPT !.m = [x \in (DOMAIN mp.m) \ {k} |-> mp.m[x]]]

Min(a, b) == IF a < b THEN a ELSE b

\* ----------------------------------------------------------------- errors
OK == "nil"
ErrSegmentNotOpen == "segment is not open"
ErrSegmentNotFound == "can not add attribute to not existing segment"
ErrAttributeAlreadySet == "segment attribute already exist"
ErrSegmentNameMissing == "segment name not found"
ErrTxAttributeAlreadySet == "transaction attribute already set"
ErrRead == "error while reading message"
ErrUnknownLevel == "unknown log level"
Panic == "panic"

\* The transaction as one value, and the result of running a method on it.
\* closed counts the Close calls the running method made on the payload source
\* its caller handed it.
Cur ==
  [segments |-> segments, attributes |-> attributes,
   logged |-> segmentsStartWasLogged, txAttributes |-> txAttributes,
   trace |-> trace, processID |-> processID, out |-> out, closed |-> 0]
Ret(c, e) == [c |-> c, err |-> e]
Emit(c, r) == [c EXCEPT !.out = Append(@, r)]
\* the deferred readCloser.Close() of a method, run on each of its returns
Close(r) == [r EXCEPT !.c.closed = @ + 1]

\* One record of the backend stream.
\*   kind : "start" / "end" (segment start and end), "message" (Info, Error),
\*          "txend" (transaction end), or a vendor call of the APM SDK
\*   level: "info" / "error" for zerolog events and the local INFO / ERROR
\*          blocks, "log" for a plain log.Printf line, "apm" for vendor calls
\*   id, name, attrs: the segment fields the record carries (NoId, NoName,
\*          EmptyFn when it carries none);  n: bytes of payload text
\*   trace, pid: the value of the record's trace id and process id field,
\*          NoField when the record has no such field
\*   seg  : the vendor segment a call of the APM SDK starts or is made on,
\*          NoSeg for every other record
Rec(kind, level, id, name, attrs, n) ==
  [kind |-> kind, level |-> level, id |-> id, name |-> name, attrs |-> attrs, n |-> n,
   trace |-> NoField, pid |-> NoField, seg |-> NoSeg]
WithIDs(r, tr, pid) == [r EXCEPT !.trace = tr, !.pid = pid]

\* io.Reader.Read into a buffer of cap bytes, one call: an exhausted (empty)
\* source answers io.EOF, which the callers treat as a read error.
Read(p, cap) ==
  IF p.fail \/ p.len = 0 THEN [n |-> 0, err |-> TRUE]
  ELSE [n |-> Min(p.len, cap), err |-> FALSE]
\* io.ReadAll: reads to EOF, EOF is not an error.
ReadAll(p) ==
  IF p.fail THEN [n |-> 0, err |-> TRUE] ELSE [n |-> p.len, err |-> FALSE]
\* io.NopCloser(strings.NewReader(fmt.Sprintf("Segment start: %s", name))):
\* a source that cannot fail and is never empty
SegmentText(text) == [len |-> 1, fail |-> FALSE, text |-> text]

\* ======================================================= LocalTransaction
\* newLocalTransaction: every map is made, nothing is open.
newLocalTransaction ==
  [segments |-> MakeMap, attributes |-> MakeMap, logged |-> {},
   txAttributes |-> MakeMap, trace |-> EmptyString, processID |-> EmptyString,
   out |-> <<>>]

\* Start: the trace line only when a trace is set, then the process id line
Local_Start(c) ==
  LET line == Rec("txstart", "log", NoId, NoName, EmptyFn, 0)
      c1 == IF c.trace # EmptyString THEN Emit(c, WithIDs(line, c.trace, NoField)) ELSE c
  IN  Emit(c1, WithIDs(line, NoField, c.processID))

Local_SetTrace(c, t) == [c EXCEPT !.trace = t]
Local_SetProcessID(c, id) == [c EXCEPT !.processID = id]

\* the bug of storing the value without looking for the key
Local_AddTransactionAttribute_Overwrite(c, key, value) ==
  IF c.txAttributes.nil THEN Ret(c, Panic)
  ELSE Ret([c EXCEPT !.txAttributes = Put(@, key, value)], OK)

Local_AddTransactionAttribute(c, key, value) ==
  IF Has(c.txAttributes, key) THEN Ret(c, ErrTxAttributeAlreadySet)
  ELSE IF c.txAttributes.nil THEN Ret(c, Panic)
  ELSE Ret([c EXCEPT !.txAttributes = Put(@, key, value)], OK)

\* the bug of a lazy start that also fires for an id that is not open
Local_segmentWriteStart_Implicit(c, segmentID) ==
  IF segmentID \in c.logged THEN Ret(c, OK)
  ELSE Ret([Emit(c, Rec("start", "log", segmentID, Get(c.segments, segmentID, NoName),
                        EmptyFn, 0))
              EXCEPT !.logged = @ \cup {segmentID}], OK)

Local_segmentWriteStart(c, segmentID) ==
  IF segmentID \in c.logged THEN Ret(c, OK)
  ELSE IF ~Has(c.segments, segmentID) THEN Ret(c, ErrSegmentNameMissing)
  ELSE Ret([Emit(c, Rec("start", "log", segmentID, c.segments.m[segmentID], EmptyFn, 0))
              EXCEPT !.logged = @ \cup {segmentID}], OK)

\* the bug of writing the start record at every verbosity
Local_SegmentStart_Eager(c, lvl, segmentID, name) ==
  IF c.segments.nil THEN Ret(c, Panic)
  ELSE Local_segmentWriteStart([c EXCEPT !.segments = Put(@, segmentID, name)], segmentID)

\* the bug of treating the re-start of an open id as a new segment
Local_SegmentStart_Reset(c, lvl, segmentID, name) ==
  IF c.segments.nil THEN Ret(c, Panic)
  ELSE LET c1 == [c EXCEPT !.segments = Put(@, segmentID, name),
                           !.attributes = Delete(@, segmentID),
                           !.logged = @ \ {segmentID}]
       IN  IF lvl = logLevelDebug THEN Local_segmentWriteStart(c1, segmentID)
           ELSE Ret(c1, OK)

\* the bug of writing the start record before the name is stored
Local_SegmentStart_WriteFirst(c, lvl, segmentID, name) ==
  IF c.segments.nil THEN Ret(c, Panic)
  ELSE IF lvl = logLevelDebug
  THEN LET r == Local_segmentWriteStart(c, segmentID)
       IN  Ret([r.c EXCEPT !.segments = Put(@, segmentID, name)], r.err)
  ELSE Ret([c EXCEPT !.segments = Put(@, segmentID, name)], OK)

Local_SegmentStart(c, lvl, segmentID, name) ==
  IF c.segments.nil THEN Ret(c, Panic)
  ELSE LET c1 == [c EXCEPT !.segments = Put(@, segmentID, name)]
       IN  IF lvl = logLevelDebug THEN Local_segmentWriteStart(c1, segmentID)
           ELSE Ret(c1, OK)

\* the bug of storing the value without looking for the key
Local_AddSegmentAttribute_Overwrite(c, segmentID, key, value) ==
  IF ~Has(c.segments, segmentID) THEN Ret(c, ErrSegmentNotFound)
  ELSE IF ~Has(c.attributes, segmentID) /\ c.attributes.nil THEN Ret(c, Panic)
  ELSE LET bag == Get(c.attributes, segmentID, EmptyFn)
       IN  Ret([c EXCEPT !.attributes =
                  Put(@, segmentID,
                      [x \in (DOMAIN bag) \cup {key} |-> IF x = key THEN value ELSE bag[x]])],
               OK)

Local_AddSegmentAttribute(c, segmentID, key, value) ==
  IF ~Has(c.segments, segmentID) THEN Ret(c, ErrSegmentNotFound)
  ELSE IF ~Has(c.attributes, segmentID) /\ c.attributes.nil THEN Ret(c, Panic)
  ELSE LET bag == Get(c.attributes, segmentID, EmptyFn)
       IN  IF key \in DOMAIN bag
           THEN Ret(c, ErrAttributeAlreadySet)
           ELSE Ret([c EXCEPT !.attributes =
                       Put(@, segmentID,
                           [x \in (DOMAIN bag) \cup {key} |-> IF x = key THEN value ELSE bag[x]])],
                    OK)

\* the bug of forgetting the id in segmentsStartWasLogged
Local_segmentWriteEnd_KeepLogged(c, segmentID) ==
  IF segmentID \notin c.logged
  THEN Ret([c EXCEPT !.segments = Delete(@, segmentID),
                     !.attributes = Delete(@, segmentID)], OK)
  ELSE IF ~Has(c.segments, segmentID) THEN Ret(c, ErrSegmentNotOpen)
  ELSE Ret([Emit(c, Rec("end", "log", segmentID, c.segments.m[segmentID], EmptyFn, 0))
              EXCEPT !.segments = Delete(@, segmentID),
                     !.attributes = Delete(@, segmentID)], OK)

Local_segmentWriteEnd(c, segmentID) ==
  IF segmentID \notin c.logged
  THEN Ret([c EXCEPT !.segments = Delete(@, segmentID),
                     !.attributes = Delete(@, segmentID)], OK)
  ELSE IF ~Has(c.segments, segmentID) THEN Ret(c, ErrSegmentNotOpen)
  ELSE Ret([Emit(c, Rec("end", "log", segmentID, c.segments.m[segmentID], EmptyFn, 0))
              EXCEPT !.segments = Delete(@, segmentID),
                     !.attributes = Delete(@, segmentID),
                     !.logged = @ \ {segmentID}], OK)

Local_SegmentEnd(c, segmentID) ==
  IF ~Has(c.segments, segmentID) THEN Ret(c, ErrSegmentNotOpen)
  ELSE Ret(Local_segmentWriteEnd(c, segmentID).c, OK)

\* the INFO / ERROR block both Info and Error build after reading the payload
Local_block(c, level, segmentID, n) ==
  LET inSegment == segmentID # EmptyId /\ Has(c.segments, segmentID)
      r == IF inSegment
           THEN Rec("message", level, segmentID, c.segments.m[segmentID],
                    Get(c.attributes, segmentID, EmptyFn), n)
           ELSE Rec("message", level, NoId, NoName, EmptyFn, n)
  IN  WithIDs(r, c.trace, NoField)

\* the bug of writing the block without the lazy segment start
Local_Error_NoStart(c, segmentID, p) ==
  LET rd == Read(p, ErrorBytesSize)
  IN  Close(IF rd.err THEN Ret(c, ErrRead)
            ELSE Ret(Emit(c, Local_block(c, "error", segmentID, rd.n)), OK))

\* the bug of reading the payload before the lazy segment start
Local_Error_ReadFirst(c, segmentID, p) ==
  LET rd == Read(p, ErrorBytesSize)
      c1 == Local_segmentWriteStart(c, segmentID).c
  IN  Close(IF rd.err THEN Ret(c, ErrRead)
            ELSE Ret(Emit(c1, Local_block(c1, "error", segmentID, rd.n)), OK))

Local_Error(c, segmentID, p) ==
  LET c1 == Local_segmentWriteStart(c, segmentID).c
      rd == Read(p, ErrorBytesSize)
  IN  Close(IF rd.err THEN Ret(c1, ErrRead)
            ELSE Ret(Emit(c1, Local_block(c1, "error", segmentID, rd.n)), OK))

\* Error and Info from the read of the payload on: what they do after their
\* call of segmentWriteStart
Local_ErrorAfterStart(c, segmentID, p) ==
  LET rd == Read(p, ErrorBytesSize)
  IN  Close(IF rd.err THEN Ret(c, ErrRead)
            ELSE Ret(Emit(c, Local_block(c, "error", segmentID, rd.n)), OK))

Local_InfoAfterStart(c, segmentID, p) ==
  LET rd == ReadAll(p)
  IN  Close(IF rd.err THEN Ret(c, ErrRead)
            ELSE Ret(Emit(c, Local_block(c, "info", segmentID, rd.n)), OK))

\* the bug of logging Info at verbosity debug only
Local_Info_DebugOnly(c, lvl, segmentID, p) ==
  IF lvl # logLevelDebug THEN Ret(c, OK)
  ELSE LET c1 == Local_segmentWriteStart(c, segmentID).c
           rd == ReadAll(p)
       IN  Close(IF rd.err THEN Ret(c1, ErrRead)
                 ELSE Ret(Emit(c1, Local_block(c1, "info", segmentID, rd.n)), OK))

\* Info returns before it locks when logLevel is logLevelError
Local_Info(c, lvl, segmentID, p) ==
  IF lvl = logLevelError THEN Ret(c, OK)
  ELSE LET c1 == Local_segmentWriteStart(c, segmentID).c
           rd == ReadAll(p)
       IN  Close(IF rd.err THEN Ret(c1, ErrRead)
                 ELSE Ret(Emit(c1, Local_block(c1, "info", segmentID, rd.n)), OK))

Local_Done(c) == Ret(Emit(c, Rec("txend", "log", NoId, NoName, EmptyFn, 0)), OK)

Local_Erase(c) ==
  [c EXCEPT !.txAttributes = NilMap, !.segments = NilMap, !.attributes = NilMap]

\* ========================================= ZeroLogTransaction (part_001)
newZeroLogTransaction ==
  [segments |-> MakeMap, attributes |-> MakeMap, logged |-> {},
   txAttributes |-> MakeMap, trace |-> EmptyString, processID |-> EmptyString,
   out |-> <<>>]

ZeroLog_logTrace(c, kind) ==
  Emit(c, WithIDs(Rec(kind, "info", NoId, NoName, c.txAttributes.m, 0),
                  IF c.trace # EmptyString THEN c.trace ELSE NoField, c.processID))

ZeroLog_Start(c) == ZeroLog_logTrace(c, "txstart")

ZeroLog_SetTrace(c, t) == [c EXCEPT !.trace = t]
ZeroLog_SetProcessID(c, id) == [c EXCEPT !.processID = id]

ZeroLog_AddTransactionAttribute(c, key, value) ==
  IF Has(c.txAttributes, key) THEN Ret(c, ErrTxAttributeAlreadySet)
  ELSE IF c.txAttributes.nil THEN Ret(c, Panic)
  ELSE Ret([c EXCEPT !.txAttributes = Put(@, key, value)], OK)

\* the part logMessage and logMessageWithAlreadyLockedMutex share: read at most
\* ErrorBytesSize bytes, pick the event by level, add the segment fields, send.
\* logMessageWithAlreadyLockedMutex closes the reader segmentWriteStart and
\* segmentWriteEnd made for it, logMessage the caller's.
ZeroLog_event(c, level, segmentID, p) ==
  LET rd == Read(p, ErrorBytesSize)
  IN  IF rd.err THEN Ret(c, ErrRead)
      ELSE IF level \notin {newRelicZerologInfo, newRelicZerologError}
      THEN Ret(c, ErrUnknownLevel)
      ELSE Ret(Emit(c, WithIDs(Rec(p.text, level, segmentID,
                                   Get(c.segments, segmentID, NoName),
                                   Get(c.attributes, segmentID, EmptyFn), rd.n),
                               c.trace, c.processID)), OK)

ZeroLog_logMessageWithAlreadyLockedMutex(c, level, segmentID, p) ==
  ZeroLog_event(c, level, segmentID, p)

ZeroLog_infoWithAlreadyLockedMutex(c, segmentID, p) ==
  ZeroLog_logMessageWithAlreadyLockedMutex(c, newRelicZerologInfo, segmentID, p)

\* the bug of not consulting segmentsStartWasLogged
ZeroLog_segmentWriteStart_Always(c, segmentID) ==
  IF ~Has(c.segments, segmentID) THEN Ret(c, ErrSegmentNameMissing)
  ELSE LET r == ZeroLog_infoWithAlreadyLockedMutex(c, segmentID, SegmentText("start"))
       IN  IF r.err # OK THEN r
           ELSE Ret([r.c EXCEPT !.logged = @ \cup {segmentID}], OK)

ZeroLog_segmentWriteStart(c, segmentID) ==
  IF segmentID \in c.logged THEN Ret(c, OK)
  ELSE IF ~Has(c.segments, segmentID) THEN Ret(c, ErrSegmentNameMissing)
  ELSE LET r == ZeroLog_infoWithAlreadyLockedMutex(c, segmentID, SegmentText("start"))
       IN  IF r.err # OK THEN r
           ELSE Ret([r.c EXCEPT !.logged = @ \cup {segmentID}], OK)

\* the bug of leaving the start record to the first message at every verbosity
ZeroLog_SegmentStart_Lazy(c, lvl, segmentID, name) ==
  IF c.segments.nil THEN Ret(c, Panic)
  ELSE Ret([c EXCEPT !.segments = Put(@, segmentID, name)], OK)

ZeroLog_SegmentStart(c, lvl, segmentID, name) ==
  IF c.segments.nil THEN Ret(c, Panic)
  ELSE LET c1 == [c EXCEPT !.segments = Put(@, segmentID, name)]
       IN  IF lvl = logLevelDebug THEN ZeroLog_segmentWriteStart(c1, segmentID)
           ELSE Ret(c1, OK)

ZeroLog_AddSegmentAttribute(c, segmentID, key, value) ==
  IF ~Has(c.segments, segmentID) THEN Ret(c, ErrSegmentNotFound)
  ELSE IF ~Has(c.attributes, segmentID) /\ c.attributes.nil THEN Ret(c, Panic)
  ELSE LET bag == Get(c.attributes, segmentID, EmptyFn)
       IN  IF key \in DOMAIN bag
           THEN Ret(c, ErrAttributeAlreadySet)
           ELSE Ret([c EXCEPT !.attributes =
                       Put(@, segmentID,
                           [x \in (DOMAIN bag) \cup {key} |-> IF x = key THEN value ELSE bag[x]])],
                    OK)

\* the bug of leaving the attribute bag of an ended segment behind
ZeroLog_segmentWriteEnd_KeepAttributes(c, segmentID) ==
  IF segmentID \notin c.logged
  THEN Ret([c EXCEPT !.segments = Delete(@, segmentID)], OK)
  ELSE IF ~Has(c.segments, segmentID) THEN Ret(c, ErrSegmentNotOpen)
  ELSE LET r == ZeroLog_infoWithAlreadyLockedMutex(c, segmentID, SegmentText("end"))
       IN  IF r.err # OK THEN r
           ELSE Ret([r.c EXCEPT !.segments = Delete(@, segmentID),
                                !.logged = @ \ {segmentID}], OK)

ZeroLog_segmentWriteEnd(c, segmentID) ==
  IF segmentID \notin c.logged
  THEN Ret([c EXCEPT !.segments = Delete(@, segmentID),
                     !.attributes = Delete(@, segmentID)], OK)
  ELSE IF ~Has(c.segments, segmentID) THEN Ret(c, ErrSegmentNotOpen)
  ELSE LET r == ZeroLog_infoWithAlreadyLockedMutex(c, segmentID, SegmentText("end"))
       IN  IF r.err # OK THEN r
           ELSE Ret([r.c EXCEPT !.segments = Delete(@, segmentID),
                                !.attributes = Delete(@, segmentID),
                                !.logged = @ \ {segmentID}], OK)

\* the bug of ending without looking the id up
ZeroLog_SegmentEnd_Unchecked(c, segmentID) == ZeroLog_segmentWriteEnd(c, segmentID)

ZeroLog_SegmentEnd(c, segmentID) ==
  IF ~Has(c.segments, segmentID) THEN Ret(c, ErrSegmentNotOpen)
  ELSE ZeroLog_segmentWriteEnd(c, segmentID)

ZeroLog_logMessage(c, level, segmentID, p) ==
  Close(ZeroLog_event(ZeroLog_segmentWriteStart(c, segmentID).c, level, segmentID, p))

ZeroLog_Error(c, segmentID, p) == ZeroLog_logMessage(c, newRelicZerologError, segmentID, p)

\* the bug of logging Info at every verbosity
ZeroLog_Info_Unfiltered(c, lvl, segmentID, p) ==
  ZeroLog_logMessage(c, newRelicZerologInfo, segmentID, p)

\* Info returns before it locks when logLevel is logLevelError
ZeroLog_Info(c, lvl, segmentID, p) ==
  IF lvl = logLevelError THEN Ret(c, OK)
  ELSE ZeroLog_logMessage(c, newRelicZerologInfo, segmentID, p)

ZeroLog_Erase(c) ==
  [c EXCEPT !.txAttributes = NilMap, !.segments = NilMap, !.attributes = NilMap]

ZeroLog_Done(c) == Ret(ZeroLog_Erase(ZeroLog_logTrace(c, "txend")), OK)

\* ============================================= APMTransaction (part_003)
\* newAPMTransaction.  segments holds *newrelic.Segment values: the name the
\* vendor segment was started with and which vendor segment it is.
newAPMTransaction ==
  [segments |-> MakeMap, attributes |-> MakeMap, logged |-> {},
   txAttributes |-> MakeMap, trace |-> EmptyString, processID |-> EmptyString,
   out |-> <<>>]

Vendor(c, call, name, attrs, n) == Emit(c, Rec(call, "apm", NoId, name, attrs, n))
\* a call on the vendor segment sg
VendorSegment(c, call, sg, attrs) ==
  Emit(c, [Rec(call, "apm", NoId, sg.name, attrs, 0) EXCEPT !.seg = sg.seg])

APM_AddTransactionAttribute(c, key, value) ==
  IF Has(c.txAttributes, key) THEN Ret(c, ErrTxAttributeAlreadySet)
  ELSE LET c1 == Vendor(c, "AddAttribute", NoName, [x \in {key} |-> value], 0)
       IN  IF c.txAttributes.nil THEN Ret(c1, Panic)
           ELSE Ret([c1 EXCEPT !.txAttributes = Put(@, key, value)], OK)

\* the bug of keeping the vendor segment stored first for an open id
APM_SegmentStart_KeepFirst(c, segmentID, name) ==
  LET segment == [name |-> name, seg |-> Len(c.out) + 1]
      c1 == VendorSegment(c, "StartSegment", segment, EmptyFn)
      made == IF c1.segments.nil THEN MakeMap ELSE c1.segments
  IN  Ret([c1 EXCEPT !.segments = IF Has(made, segmentID) THEN made
                                  ELSE Put(made, segmentID, segment)], OK)

APM_SegmentStart(c, segmentID, name) ==
  LET segment == [name |-> name, seg |-> Len(c.out) + 1]
      c1 == VendorSegment(c, "StartSegment", segment, EmptyFn)
      made == IF c1.segments.nil THEN MakeMap ELSE c1.segments
  IN  Ret([c1 EXCEPT !.segments = Put(made, segmentID, segment)], OK)

\* the bug of making the bag before looking the segment up
APM_AddSegmentAttribute_BagFirst(c, segmentID, key, value) ==
  IF ~Has(c.attributes, segmentID) /\ c.attributes.nil THEN Ret(c, Panic)
  ELSE LET bag == Get(c.attributes, segmentID, EmptyFn)
           c1 == [c EXCEPT !.attributes = Put(@, segmentID, bag)]
       IN  IF ~Has(c.segments, segmentID) THEN Ret(c1, ErrSegmentNotFound)
           ELSE IF key \in DOMAIN bag THEN Ret(c1, ErrAttributeAlreadySet)
           ELSE Ret(VendorSegment([c EXCEPT !.attributes =
                                     Put(@, segmentID,
                                         [x \in (DOMAIN bag) \cup {key} |->
                                            IF x = key THEN value ELSE bag[x]])],
                                  "Segment.AddAttribute", c.segments.m[segmentID],
                                  [x \in {key} |-> value]),
                    OK)

APM_AddSegmentAttribute(c, segmentID, key, value) ==
  IF ~Has(c.segments, segmentID) THEN Ret(c, ErrSegmentNotFound)
  ELSE IF ~Has(c.attributes, segmentID) /\ c.attributes.nil THEN Ret(c, Panic)
  ELSE LET bag == Get(c.attributes, segmentID, EmptyFn)
       IN  IF key \in DOMAIN bag
           THEN Ret(c, ErrAttributeAlreadySet)
           ELSE Ret(VendorSegment([c EXCEPT !.attributes =
                                     Put(@, segmentID,
                                         [x \in (DOMAIN bag) \cup {key} |->
                                            IF x = key THEN value ELSE bag[x]])],
                                  "Segment.AddAttribute", c.segments.m[segmentID],
                                  [x \in {key} |-> value]),
                    OK)

APM_SegmentEnd(c, segmentID) ==
  IF ~Has(c.segments, segmentID) THEN Ret(c, ErrSegmentNotOpen)
  ELSE Ret([VendorSegment(c, "Segment.End", c.segments.m[segmentID], EmptyFn)
              EXCEPT !.segments = Delete(@, segmentID),
                     !.attributes = Delete(@, segmentID)], OK)

APM_Error(c, segmentID, p) ==
  LET rd == Read(p, ErrorBytesSize)
  IN  Close(IF rd.err THEN Ret(c, ErrRead)
            ELSE Ret(Vendor(c, "NoticeError", NoName, EmptyFn, rd.n), OK))

APM_Info(c, segmentID, p) == Ret(c, OK)

APM_Done(c) == Ret(Vendor(c, "Transaction.End", NoName, EmptyFn, 0), OK)

APM_Erase(c) ==
  [c EXCEPT !.txAttributes = NilMap, !.segments = NilMap, !.attributes = NilMap]

\* ====================================== older ZeroLogTransaction (part_000)
\* ZeroLogDriver.Start: only the logger is set, so every map is nil and the
\* mutex pointer is nil; it writes the transaction start line.  The methods
\* have value receivers: what they assign to the transaction's fields is
\* assigned to a copy.
Old_logTrace(c, kind) ==
  Emit(c, WithIDs(Rec(kind, "info", NoId, NoName, c.txAttributes.m, 0), c.trace, NoField))

Old_Start ==
  Old_logTrace([segments |-> NilMap, attributes |-> NilMap, logged |-> {},
                txAttributes |-> NilMap, trace |-> EmptyString,
                processID |-> EmptyString, out |-> <<>>], "txstart")

Old_AddTransactionAttribute(c, key, value) ==
  IF Has(c.txAttributes, key) THEN Ret(c, ErrTxAttributeAlreadySet) ELSE Ret(c, OK)

\* string(msg) is the whole buffer, whatever Read returned
Old_logMessage(c, level, segmentID, p) ==
  LET rd == Read(p, ErrorBytesSize)
  IN  Close(IF rd.err THEN Ret(c, ErrRead)
            ELSE IF level \notin {levelInfo, levelError} THEN Ret(c, ErrUnknownLevel)
            ELSE Ret(Emit(c, WithIDs(Rec(p.text, level, segmentID,
                                         Get(c.segments, segmentID, NoName),
                                         Get(c.attributes, segmentID, EmptyFn),
                                         ErrorBytesSize),
                                     c.trace, NoField)), OK))

Old_Error(c, segmentID, p) == Old_logMessage(c, levelInfo, segmentID, p)

Old_Info(c, segmentID, p) == Old_logMessage(c, levelInfo, segmentID, p)

Old_Erase(c) == c

Old_Done(c) == Ret(Old_Erase(Old_logTrace(c, "txend")), OK)

\* ========================================================= NopTransaction
\* newNopTransaction: NopTransaction{}, no map is made; the segment container
\* has no fields
newNopTransaction ==
  [segments |-> NilMap, attributes |-> NilMap, logged |-> {},
   txAttributes |-> NilMap, trace |-> EmptyString, processID |-> EmptyString,
   out |-> <<>>]

Nop_AddTransactionAttribute(c, key, value) == Ret(c, OK)
Nop_SegmentStart(c, segmentID, name) == Ret(c, OK)
Nop_AddSegmentAttribute(c, segmentID, key, value) == Ret(c, OK)
\* the bug of a no-op adapter that keeps track of segments
Nop_SegmentEnd_Tracking(c, segmentID) ==
  IF ~Has(c.segments, segmentID) THEN Ret(c, ErrSegmentNotOpen) ELSE Ret(c, OK)
Nop_SegmentEnd(c, segmentID) == Ret(c, OK)
Nop_Error(c, segmentID, p) == Ret(c, OK)
Nop_Info(c, segmentID, p) == Ret(c, OK)
Nop_Done(c) == Ret(c, OK)
Nop_Erase(c) == c

\* =============================================================== dispatch
Locking == {LocalAdapter, ZeroLogAdapter, APMAdapter}

\* the call a goroutine made: operation, segment id, returned error, and how
\* often it closed the payload source it was given
Call(g, op, id, name, key, val, p, err) == [op |-> op, id |-> id, err |-> err, closed |-> 0]
NoCall == Call(NoProc, "none", NoId, NoName, "", 0, NoPayload, OK)

IsOpen(id) == Has(segments, id)

\* Info is dropped before anything else happens
Suppressed == adapter \in LogAdapters /\ logLevel = logLevelError

\* the methods of the two log adapters that read logLevel, and the lazy
\* start, run on transaction c under verbosity lvl
SegmentStartAt(c, lvl, segmentID, name) ==
  IF adapter = LocalAdapter THEN Local_SegmentStart(c, lvl, segmentID, name)
  ELSE ZeroLog_SegmentStart(c, lvl, segmentID, name)
InfoAt(c, lvl, segmentID, p) ==
  IF adapter = LocalAdapter THEN Local_Info(c, lvl, segmentID, p)
  ELSE ZeroLog_Info(c, lvl, segmentID, p)
ErrorAt(c, segmentID, p) ==
  IF adapter = LocalAdapter THEN Local_Error(c, segmentID, p)
  ELSE ZeroLog_Error(c, segmentID, p)
segmentWriteStartAt(c, segmentID) ==
  IF adapter = LocalAdapter THEN Local_segmentWriteStart(c, segmentID)
  ELSE ZeroLog_segmentWriteStart(c, segmentID)

\* Write a method's result back into the transaction.  A panic kills the
\* process (nothing recovers it); the deferred Unlock still runs first.
CommitFields(c) ==
  /\ segments' = c.segments
  /\ attributes' = c.attributes
  /\ segmentsStartWasLogged' = c.logged
  /\ txAttributes' = c.txAttributes
  /\ out' = c.out
  /\ periodStarts' = [i \in DOMAIN periodStarts |->
       IF ~Has(c.segments, i) THEN {}
       ELSE (IF IsOpen(i) THEN periodStarts[i] ELSE {})
              \cup {j \in (Len(out) + 1)..Len(c.out) :
                      c.out[j].kind = "start" /\ c.out[j].id = i}]

CommitTx(r, call) ==
  /\ CommitFields(r.c)
  /\ panicked' = (r.err = Panic)
  /\ last' = [call EXCEPT !.err = r.err, !.closed = r.c.closed]
  /\ msgCalled' = [i \in DOMAIN msgCalled |->
       /\ Has(r.c.segments, i) /\ IsOpen(i)
       /\ \/ msgCalled[i]
          \/ call.id = i /\ call.op = "Error"
          \/ call.id = i /\ call.op = "Info" /\ ~Suppressed]
  /\ UNCHANGED <<adapter, configLogLevel, logLevel, trace, processID>>

\* ... by a method that runs in one step and leaves the other transaction alone
Commit(r, call) == CommitTx(r, call) /\ UNCHANGED <<other, pending>>

Running == ~panicked

\* the goroutines of the run and the segment ids they use
Goroutines == DOMAIN pc
SegIds == DOMAIN periodStarts

\* ================================================================ actions
\* the bug of a lock that does not exclude
Lock_NoWait(g) ==
  /\ ~panicked
  /\ adapter \in Locking
  /\ pc[g] = "idle"
  /\ mutex' = g
  /\ pc' = [pc EXCEPT ![g] = "crit"]
  /\ UNCHANGED <<adapter, configLogLevel, logLevel, segments, attributes,
                 segmentsStartWasLogged, txAttributes, trace, processID, other, pending,
                 out, panicked, periodStarts, msgCalled, last>>

\* the bug of one mutex for all transactions of the package
Lock_Shared(g) ==
  /\ Running
  /\ adapter \in Locking
  /\ pc[g] = "idle"
  /\ mutex = NoProc /\ other.mutex = NoProc
  /\ mutex' = g
  /\ pc' = [pc EXCEPT ![g] = "crit"]
  /\ UNCHANGED <<adapter, configLogLevel, logLevel, segments, attributes,
                 segmentsStartWasLogged, txAttributes, trace, processID, other, pending,
                 out, panicked, periodStarts, msgCalled, last>>

\* mutex.Lock(): a goroutine entering a locking method waits until the mutex
\* is free and then holds it
Lock(g) ==
  /\ Running
  /\ adapter \in Locking
  /\ pc[g] = "idle"
  /\ mutex = NoProc
  /\ mutex' = g
  /\ pc' = [pc EXCEPT ![g] = "crit"]
  /\ UNCHANGED <<adapter, configLogLevel, logLevel, segments, attributes,
                 segmentsStartWasLogged, txAttributes, trace, processID, other, pending,
                 out, panicked, periodStarts, msgCalled, last>>

\* the bug of returning an error without unlocking
Unlock_OnSuccess(g) ==
  /\ mutex' = IF last'.err = OK THEN NoProc ELSE mutex
  /\ pc' = [pc EXCEPT ![g] = "idle"]

\* the deferred mutex.Unlock() and the return
Unlock(g) ==
  /\ mutex' = NoProc
  /\ pc' = [pc EXCEPT ![g] = "idle"]

\* a method that does not lock returns
Return(g) == UNCHANGED <<mutex, pc>>

InCrit(g) == Running /\ pc[g] = "crit" /\ mutex = g
Idle(g) == Running /\ pc[g] = "idle"

SegmentStartBody(g, segmentID, name) ==
  /\ InCrit(g)
  /\ LET r == CASE adapter = LocalAdapter -> Local_SegmentStart(Cur, logLevel, segmentID, name)
                [] adapter = ZeroLogAdapter -> ZeroLog_SegmentStart(Cur, logLevel, segmentID, name)
                [] adapter = APMAdapter -> APM_SegmentStart(Cur, segmentID, name)
     IN  Commit(r, Call(g, "SegmentStart", segmentID, name, "", 0, NoPayload, OK))
  /\ Unlock(g)

AddSegmentAttributeBody(g, segmentID, key, value) ==
  /\ InCrit(g)
  /\ LET r == CASE adapter = LocalAdapter -> Local_AddSegmentAttribute(Cur, segmentID, key, value)
                [] adapter = ZeroLogAdapter -> ZeroLog_AddSegmentAttribute(Cur, segmentID, key, value)
                [] adapter = APMAdapter -> APM_AddSegmentAttribute(Cur, segmentID, key, value)
     IN  Commit(r, Call(g, "AddSegmentAttribute", segmentID, NoName, key, value, NoPayload, OK))
  /\ Unlock(g)

SegmentEndBody(g, segmentID) ==
  /\ InCrit(g)
  /\ LET r == CASE adapter = LocalAdapter -> Local_SegmentEnd(Cur, segmentID)
                [] adapter = ZeroLogAdapter -> ZeroLog_SegmentEnd(Cur, segmentID)
                [] adapter = APMAdapter -> APM_SegmentEnd(Cur, segmentID)
     IN  Commit(r, Call(g, "SegmentEnd", segmentID, NoName, "", 0, NoPayload, OK))
  /\ Unlock(g)

\* the bug of an Error that logs without taking the mutex
ErrorBody_Unlocked(g, segmentID, p) ==
  /\ Idle(g)
  /\ Commit(CASE adapter = LocalAdapter -> Local_Error(Cur, segmentID, p)
              [] adapter = ZeroLogAdapter -> ZeroLog_Error(Cur, segmentID, p)
              [] adapter = APMAdapter -> APM_Error(Cur, segmentID, p)
              [] adapter = OldZeroLogAdapter -> Old_Error(Cur, segmentID, p),
            Call(g, "Error", segmentID, NoName, "", 0, p, OK))
  /\ Return(g)

\* Error locks in the two log adapters only
ErrorBody(g, segmentID, p) ==
  LET call == Call(g, "Error", segmentID, NoName, "", 0, p, OK)
  IN  \/ /\ adapter \in LogAdapters
         /\ InCrit(g)
         /\ Commit(IF adapter = LocalAdapter THEN Local_Error(Cur, segmentID, p)
                   ELSE ZeroLog_Error(Cur, segmentID, p), call)
         /\ Unlock(g)
      \/ /\ adapter \notin LogAdapters
         /\ Idle(g)
         /\ Commit(IF adapter = APMAdapter THEN APM_Error(Cur, segmentID, p)
                   ELSE Old_Error(Cur, segmentID, p), call)
         /\ Return(g)

\* Info locks in the two log adapters, and only above logLevelError
InfoBody(g, segmentID, p) ==
  LET call == Call(g, "Info", segmentID, NoName, "", 0, p, OK)
      r == CASE adapter = LocalAdapter -> Local_Info(Cur, logLevel, segmentID, p)
             [] adapter = ZeroLogAdapter -> ZeroLog_Info(Cur, logLevel, segmentID, p)
             [] adapter = APMAdapter -> APM_Info(Cur, segmentID, p)
             [] adapter = OldZeroLogAdapter -> Old_Info(Cur, segmentID, p)
  IN  \/ /\ adapter \in LogAdapters /\ logLevel # logLevelError
         /\ InCrit(g)
         /\ Commit(r, call)
         /\ Unlock(g)
      \/ /\ ~(adapter \in LogAdapters /\ logLevel # logLevelError)
         /\ Idle(g)
         /\ Commit(r, call)
         /\ Return(g)

\* The callers of Spec: any goroutine calls any method with any arguments.
\* The record stream is kept within MaxOut records: a call that would
\* overflow it is not made.
Bounded == Len(out') <= MaxOut /\ UNCHANGED step

SegmentStart(g) ==
  \E segmentID \in SegIds, name \in Names :
    SegmentStartBody(g, segmentID, name) /\ Bounded

AddSegmentAttribute(g) ==
  \E segmentID \in SegIds, key \in Keys, value \in Vals :
    AddSegmentAttributeBody(g, segmentID, key, value) /\ Bounded

SegmentEnd(g) ==
  \E segmentID \in SegIds : SegmentEndBody(g, segmentID) /\ Bounded

Error(g) ==
  \E segmentID \in SegIds, p \in Payloads : ErrorBody(g, segmentID, p) /\ Bounded

Info(g) ==
  \E segmentID \in SegIds, p \in Payloads : InfoBody(g, segmentID, p) /\ Bounded

\* part_000: SegmentStart, AddSegmentAttribute and SegmentEnd call Lock on the
\* nil *sync.RWMutex, a nil pointer dereference
NilMutexLock(g) ==
  /\ adapter = OldZeroLogAdapter
  /\ Idle(g)
  /\ \E op \in {"SegmentStart", "AddSegmentAttribute", "SegmentEnd"}, segmentID \in SegIds :
       Commit(Ret(Cur, Panic), Call(g, op, segmentID, NoName, "", 0, NoPayload, OK))
  /\ Return(g)
  /\ Bounded

Done(g) ==
  /\ Idle(g)
  /\ LET r == CASE adapter = LocalAdapter -> Local_Done(Cur)
                [] adapter = ZeroLogAdapter -> ZeroLog_Done(Cur)
                [] adapter = APMAdapter -> APM_Done(Cur)
                [] adapter = OldZeroLogAdapter -> Old_Done(Cur)
     IN  Commit(r, Call(g, "Done", NoId, NoName, "", 0, NoPayload, OK))
  /\ Return(g)
  /\ Bounded

Erase(g) ==
  /\ Idle(g)
  /\ LET c == CASE adapter = LocalAdapter -> Local_Erase(Cur)
                [] adapter = ZeroLogAdapter -> ZeroLog_Erase(Cur)
                [] adapter = APMAdapter -> APM_Erase(Cur)
                [] adapter = OldZeroLogAdapter -> Old_Erase(Cur)
     IN  Commit(Ret(c, OK), Call(g, "Erase", NoId, NoName, "", 0, NoPayload, OK))
  /\ Return(g)
  /\ Bounded

\* ========================================================== specification
New(a) ==
  CASE a = LocalAdapter -> newLocalTransaction
    [] a = ZeroLogAdapter -> newZeroLogTransaction
    [] a = APMAdapter -> newAPMTransaction
    [] a = OldZeroLogAdapter -> Old_Start
    [] a = NopAdapter -> newNopTransaction

\* the bug of taking the configured value as it is
init_NoFallback(configured) == configured

\* the init functions: the configured level if it is one of the three, else
\* the fallback to error
init(configured) ==
  CASE configured = logLevelDebug -> logLevelDebug
    [] configured = logLevelError -> logLevelError
    [] configured = logLevelInfo -> logLevelInfo
    [] OTHER -> logLevelError

\*   lazy, pos: the call wrote the start record of its id, at position pos
NoPending ==
  [op |-> "none", id |-> NoId, key |-> "", val |-> 0, p |-> NoPayload,
   lazy |-> FALSE, pos |-> 0]

\* a second transaction made by the same driver: its own maps, its own mutex
NewOther(a) ==
  [segments |-> New(a).segments, attributes |-> New(a).attributes,
   logged |-> New(a).logged, txAttributes |-> New(a).txAttributes,
   trace |-> New(a).trace, processID |-> New(a).processID, out |-> New(a).out,
   mutex |-> NoProc]

InitWith(a, lvl, procs, ids) ==
  /\ adapter = a
  /\ configLogLevel = lvl
  /\ logLevel = init(lvl)
  /\ trace = New(a).trace
  /\ processID = New(a).processID
  /\ other = NewOther(a)
  /\ pending = [g \in procs |-> NoPending]
  /\ segments = New(a).segments
  /\ attributes = New(a).attributes
  /\ segmentsStartWasLogged = New(a).logged
  /\ txAttributes = New(a).txAttributes
  /\ out = New(a).out
  /\ mutex = NoProc
  /\ pc = [g \in procs |-> "idle"]
  /\ step = [g \in procs |-> 0]
  /\ panicked = FALSE
  /\ periodStarts = [i \in ids |-> {}]
  /\ msgCalled = [i \in ids |-> FALSE]
  /\ last = NoCall

\* the APM adapter and part_000 never read logLevel: it keeps its initial value
Init ==
  \E ids \in IdUniverses :
    \/ \E a \in LogAdapters, lvl \in LogLevels : InitWith(a, lvl, Procs, ids)
    \/ \E a \in Adapters \ LogAdapters : InitWith(a, logLevelError, Procs, ids)

Next ==
  \E g \in Procs :
    \/ Lock(g) /\ UNCHANGED step
    \/ SegmentStart(g)
    \/ AddSegmentAttribute(g)
    \/ SegmentEnd(g)
    \/ Error(g)
    \/ Info(g)
    \/ NilMutexLock(g)
    \/ Done(g)
    \/ Erase(g)

Spec == Init /\ [][Next]_vars

\* ------------------------------------------------ the reference caller
\* main: N goroutines on one shared transaction, goroutine i working on its
\* own segment id i, named after i.  The calls are those of main's goroutines
\* less the Error call: SegmentStart, Info with a non-empty text, SegmentEnd.
Script == <<"SegmentStart", "Info", "SegmentEnd">>

\* fmt.Sprintf("test: %d", i)
MainName(i) == i
\* fmt.Sprintf("this is an info text lol: %d", i)
MainText(i) == [len |-> MaxPayload, fail |-> FALSE, text |-> "message"]

InitMain ==
  \E a \in LogAdapters, lvl \in {logLevelInfo, logLevelDebug} :
    InitWith(a, lvl, Workers, Workers)

MainLock(g) ==
  /\ step[g] < Len(Script)
  /\ Lock(g)
  /\ UNCHANGED step

MainCall(g) ==
  /\ step[g] < Len(Script)
  /\ step' = [step EXCEPT ![g] = @ + 1]
  /\ LET op == Script[step[g] + 1]
     IN  \/ op = "SegmentStart" /\ SegmentStartBody(g, g, MainName(g))
         \/ op = "Info" /\ InfoBody(g, g, MainText(g))
         \/ op = "SegmentEnd" /\ SegmentEndBody(g, g)

NextMain == \E g \in Workers : MainLock(g) \/ MainCall(g)

SpecMain == InitMain /\ [][NextMain]_vars

\* the Go scheduler keeps running goroutines that can run
SpecMainFair == SpecMain /\ WF_vars(NextMain)

\* ------------------------------------------------ callers of a few calls
\* each goroutine makes up to MaxCalls calls of the five segment methods, with
\* any arguments, on a transaction of one of the two log adapters
AnySegmentOp(g) ==
  \/ \E id \in SegIds, name \in Names : SegmentStartBody(g, id, name)
  \/ \E id \in SegIds, k \in Keys, v \in Vals : AddSegmentAttributeBody(g, id, k, v)
  \/ \E id \in SegIds : SegmentEndBody(g, id)
  \/ \E id \in SegIds, p \in Payloads : ErrorBody(g, id, p) \/ InfoBody(g, id, p)

InitCalls ==
  \E a \in LogAdapters, lvl \in LogLevels : InitWith(a, lvl, Procs, Ids)

CallLock(g) ==
  /\ step[g] < MaxCalls
  /\ Lock(g)
  /\ UNCHANGED step

CallBody(g) ==
  /\ step[g] < MaxCalls
  /\ step' = [step EXCEPT ![g] = @ + 1]
  /\ AnySegmentOp(g)

NextCalls == \E g \in Procs : CallLock(g) \/ CallBody(g)

SpecCalls == InitCalls /\ [][NextCalls]_vars

\* the Go scheduler keeps running goroutines that can run, and sync.RWMutex
\* hands the lock to a goroutine that keeps waiting for it
SpecCallsFair ==
  /\ SpecCalls
  /\ \A g \in Procs : WF_vars(CallBody(g)) /\ SF_vars(CallLock(g))

\* ------------------------------------------------------ a single caller
\* one goroutine calls the five segment methods of a log adapter in any
\* order, with one more segment name to choose from
SeqNames == 1..(NumNames + 1)

InitSeq ==
  \E a \in LogAdapters, lvl \in LogLevels : InitWith(a, lvl, {1}, Ids)

SeqCall(g) ==
  \/ \E id \in SegIds, name \in SeqNames : SegmentStartBody(g, id, name)
  \/ \E id \in SegIds, k \in Keys, v \in Vals : AddSegmentAttributeBody(g, id, k, v)
  \/ \E id \in SegIds : SegmentEndBody(g, id)
  \/ \E id \in SegIds, p \in Payloads : ErrorBody(g, id, p)
  \/ \E id \in SegIds, p \in Payloads : InfoBody(g, id, p)

NextSeq ==
  \E g \in Goroutines :
    \/ Lock(g) /\ UNCHANGED step
    \/ SeqCall(g) /\ Bounded

SpecSeq == InitSeq /\ [][NextSeq]_vars

\* what a step that only changes ids or a goroutine's position leaves alone
txState ==
  <<segments, attributes, segmentsStartWasLogged, txAttributes, out, panicked,
    periodStarts, msgCalled>>

\* --------------------------------- a caller that sets transaction attributes
\* AddTransactionAttribute takes no lock
AddTransactionAttributeBody(g, key, value) ==
  /\ Idle(g)
  /\ LET r == CASE adapter = LocalAdapter -> Local_AddTransactionAttribute(Cur, key, value)
                [] adapter = ZeroLogAdapter -> ZeroLog_AddTransactionAttribute(Cur, key, value)
                [] adapter = APMAdapter -> APM_AddTransactionAttribute(Cur, key, value)
                [] adapter = OldZeroLogAdapter -> Old_AddTransactionAttribute(Cur, key, value)
     IN  Commit(r, Call(g, "AddTransactionAttribute", NoId, NoName, key, value, NoPayload, OK))
  /\ Return(g)

AddTransactionAttribute(g) ==
  \E key \in Keys, value \in Vals : AddTransactionAttributeBody(g, key, value) /\ Bounded

\* one goroutine, so that its calls are serialized, calls every method of a
\* transaction of one of the three adapters that keep attributes
InitAttr ==
  \/ \E a \in LogAdapters, lvl \in LogLevels : InitWith(a, lvl, {1}, Ids)
  \/ InitWith(APMAdapter, logLevelError, {1}, Ids)

NextAttr ==
  \E g \in Goroutines :
    \/ Lock(g) /\ UNCHANGED step
    \/ AddTransactionAttribute(g)
    \/ SegmentStart(g)
    \/ AddSegmentAttribute(g)
    \/ SegmentEnd(g)
    \/ Error(g)
    \/ Info(g)
    \/ Done(g)
    \/ Erase(g)

SpecAttr == InitAttr /\ [][NextAttr]_vars

\* ------------------- AddTransactionAttribute next to Error and Info
\* LocalTransaction.AddTransactionAttribute in its two accesses of t.attributes:
\* the lookup, then the assignment.  The callers keep their
\* AddTransactionAttribute calls apart: no second one starts while one runs.
AttrLookup(g) ==
  /\ adapter = LocalAdapter
  /\ Idle(g)
  /\ \A h \in Goroutines : pc[h] # "attr"
  /\ \E key \in Keys, value \in Vals :
       pending' = [pending EXCEPT ![g] =
                     [NoPending EXCEPT !.op = "AddTransactionAttribute",
                                       !.key = key, !.val = value]]
  /\ pc' = [pc EXCEPT ![g] = "attr"]
  /\ UNCHANGED <<adapter, configLogLevel, logLevel, trace, processID, other, mutex,
                 step, txState, last>>

AttrAssign(g) ==
  /\ Running
  /\ pc[g] = "attr"
  /\ CommitTx(Local_AddTransactionAttribute(Cur, pending[g].key, pending[g].val),
              Call(g, "AddTransactionAttribute", NoId, NoName, pending[g].key,
                   pending[g].val, NoPayload, OK))
  /\ pending' = [pending EXCEPT ![g] = NoPending]
  /\ pc' = [pc EXCEPT ![g] = "idle"]
  /\ UNCHANGED <<other, mutex, step>>

\* Error and Info format t.attributes into their block inside the critical
\* section.  When that read meets the assignment of an AddTransactionAttribute
\* in flight, the Go runtime may also stop the process ("concurrent map
\* iteration and map write").
RacingRead(g) ==
  /\ adapter = LocalAdapter
  /\ InCrit(g)
  /\ \E h \in Goroutines \ {g} : pc[h] = "attr"
  /\ \E op \in {"Error", "Info"}, segmentID \in SegIds :
       /\ op = "Info" => logLevel # logLevelError
       /\ Commit(Ret(Cur, Panic), Call(g, op, segmentID, NoName, "", 0, NoPayload, OK))
  /\ Unlock(g)
  /\ UNCHANGED step

InitRace == \E lvl \in LogLevels : InitWith(LocalAdapter, lvl, Procs, Ids)

NextRace ==
  \E g \in Procs :
    \/ Lock(g) /\ UNCHANGED step
    \/ AttrLookup(g)
    \/ AttrAssign(g)
    \/ SegmentStart(g)
    \/ Error(g)
    \/ Info(g)
    \/ RacingRead(g)

SpecRace == InitRace /\ [][NextRace]_vars

\* ------------------------------------------------ any configured level
\* telemetry.logLevel as configured: a recognized level, the empty string, or
\* something else
ConfigValues == LogLevels \cup {EmptyString, "warn", "DEBUG"}

InitConfig ==
  \E a \in LogAdapters, configured \in ConfigValues : InitWith(a, configured, {1}, Ids)

NextConfig ==
  \E g \in Goroutines :
    \/ Lock(g) /\ UNCHANGED step
    \/ SegmentStart(g)
    \/ Info(g)
    \/ SegmentEnd(g)

SpecConfig == InitConfig /\ [][NextConfig]_vars

\* ------------------------------------------------- the no-op adapter
\* goroutines make up to MaxCalls calls each on one NopTransaction, any
\* method with any arguments in any order; no method locks
NopCall(g) ==
  /\ adapter = NopAdapter
  /\ Idle(g)
  /\ step[g] < MaxCalls
  /\ step' = [step EXCEPT ![g] = @ + 1]
  /\ \E id \in SegIds, name \in Names, k \in Keys, v \in Vals, p \in Payloads :
       \/ Commit(Nop_SegmentStart(Cur, id, name),
                 Call(g, "SegmentStart", id, name, "", 0, NoPayload, OK))
       \/ Commit(Nop_AddSegmentAttribute(Cur, id, k, v),
                 Call(g, "AddSegmentAttribute", id, NoName, k, v, NoPayload, OK))
       \/ Commit(Nop_SegmentEnd(Cur, id),
                 Call(g, "SegmentEnd", id, NoName, "", 0, NoPayload, OK))
       \/ Commit(Nop_Error(Cur, id, p), Call(g, "Error", id, NoName, "", 0, p, OK))
       \/ Commit(Nop_Info(Cur, id, p), Call(g, "Info", id, NoName, "", 0, p, OK))
       \/ Commit(Nop_AddTransactionAttribute(Cur, k, v),
                 Call(g, "AddTransactionAttribute", NoId, NoName, k, v, NoPayload, OK))
       \/ Commit(Nop_Done(Cur), Call(g, "Done", NoId, NoName, "", 0, NoPayload, OK))
       \/ Commit(Ret(Nop_Erase(Cur), OK),
                 Call(g, "Erase", NoId, NoName, "", 0, NoPayload, OK))
  /\ Return(g)

InitNop ==
  \E ids \in IdUniverses, lvl \in LogLevels : InitWith(NopAdapter, lvl, Procs, ids)

NextNop == \E g \in Procs : NopCall(g)

SpecNop == InitNop /\ [][NextNop]_vars

\* ------------------------------------- Error and Info in their two writes
\* In a log adapter Error, and Info above verbosity error, lock, call
\* segmentWriteStart, then read the payload and write the message, and unlock
\* on return.  Here the two writes are two steps.
MsgStart(g) ==
  /\ adapter \in LogAdapters
  /\ InCrit(g)
  /\ \E op \in {"Error", "Info"}, segmentID \in SegIds, p \in Payloads :
       /\ op = "Info" => logLevel # logLevelError
       /\ LET c1 == segmentWriteStartAt(Cur, segmentID).c
          IN  /\ CommitFields(c1)
              /\ pending' = [pending EXCEPT ![g] =
                   [NoPending EXCEPT !.op = op, !.id = segmentID, !.p = p,
                                     !.lazy = Len(c1.out) > Len(out),
                                     !.pos = Len(c1.out)]]
  /\ pc' = [pc EXCEPT ![g] = "msg"]
  /\ UNCHANGED <<adapter, configLogLevel, logLevel, trace, processID, other, mutex,
                 panicked, msgCalled, last>>

MsgWrite(g) ==
  /\ Running
  /\ pc[g] = "msg"
  /\ LET op == pending[g].op
         id == pending[g].id
         p == pending[g].p
         r == CASE adapter = LocalAdapter /\ op = "Error" -> Local_ErrorAfterStart(Cur, id, p)
                [] adapter = LocalAdapter /\ op = "Info" -> Local_InfoAfterStart(Cur, id, p)
                [] adapter = ZeroLogAdapter /\ op = "Error" ->
                     Close(ZeroLog_event(Cur, newRelicZerologError, id, p))
                [] adapter = ZeroLogAdapter /\ op = "Info" ->
                     Close(ZeroLog_event(Cur, newRelicZerologInfo, id, p))
     IN  CommitTx(r, Call(g, op, id, NoName, "", 0, p, OK))
  /\ pending' = [pending EXCEPT ![g] = NoPending]
  /\ Unlock(g)
  /\ UNCHANGED other

InitFine == \E a \in LogAdapters, lvl \in LogLevels : InitWith(a, lvl, Procs, Ids)

NextFine ==
  \E g \in Procs :
    \/ Lock(g) /\ UNCHANGED step
    \/ MsgStart(g) /\ Bounded
    \/ MsgWrite(g) /\ Bounded
    \/ SegmentStart(g)
    \/ SegmentEnd(g)
    \/ Done(g)

SpecFine == InitFine /\ [][NextFine]_vars

\* ------------------------------- two goroutines, one id, the same method
\* After some SegmentStart and Error calls two goroutines make one call each,
\* both SegmentEnd on the same open id or both AddSegmentAttribute on the
\* same open id with the same key, not set before.  A call is invoked while
\* the id is open and no earlier call is still running (step 1), locks, looks
\* the id (and the key) up, writes, and returns (step 2).  pending keeps the
\* arguments of a goroutine's call after its return.
Pair == {1, 2}

Prepare(g) ==
  /\ \A h \in Goroutines : step[h] = 0
  /\ \/ Lock(g) /\ UNCHANGED step
     \/ SegmentStart(g)
     \/ Error(g)

Invoke(g) ==
  /\ adapter \in LogAdapters
  /\ Idle(g)
  /\ step[g] = 0
  /\ \A h \in Goroutines : step[h] = 0 => pc[h] = "idle"
  /\ \E op \in {"SegmentEnd", "AddSegmentAttribute"}, id \in SegIds, k \in Keys, v \in Vals :
       /\ IsOpen(id)
       /\ op = "AddSegmentAttribute" => k \notin DOMAIN Get(attributes, id, EmptyFn)
       /\ \A h \in Goroutines :
            pending[h].op # "none"
            => pending[h].op = op /\ pending[h].id = id /\ pending[h].key = k
       /\ pending' = [pending EXCEPT ![g] =
            IF op = "SegmentEnd" THEN [NoPending EXCEPT !.op = op, !.id = id, !.key = k]
            ELSE [NoPending EXCEPT !.op = op, !.id = id, !.key = k, !.val = v]]
  /\ step' = [step EXCEPT ![g] = 1]
  /\ UNCHANGED <<adapter, configLogLevel, logLevel, trace, processID, other, mutex, pc,
                 txState, last>>

InvokedLock(g) ==
  /\ step[g] = 1
  /\ Lock(g)
  /\ UNCHANGED step

\* the return of an invoked call with result r
Returns(g, r) ==
  /\ CommitTx(r, Call(g, pending[g].op, pending[g].id, NoName, pending[g].key,
                      pending[g].val, NoPayload, OK))
  /\ Unlock(g)
  /\ step' = [step EXCEPT ![g] = 2]
  /\ UNCHANGED <<other, pending>>

\* an invoked call goes on to its write
GoesOn(g, to) ==
  /\ pc' = [pc EXCEPT ![g] = to]
  /\ UNCHANGED <<adapter, configLogLevel, logLevel, trace, processID, other, pending,
                 mutex, step, txState, last>>

\* SegmentEnd up to its lookup of the id in segments
SegmentEndLookup(g) ==
  /\ InCrit(g)
  /\ step[g] = 1 /\ pending[g].op = "SegmentEnd"
  /\ IF Has(segments, pending[g].id) THEN GoesOn(g, "end")
     ELSE Returns(g, Ret(Cur, ErrSegmentNotOpen))

\* SegmentEnd from its call of segmentWriteEnd on
SegmentEndWrite(g) ==
  /\ Running
  /\ pc[g] = "end"
  /\ Returns(g, IF adapter = LocalAdapter
                THEN Ret(Local_segmentWriteEnd(Cur, pending[g].id).c, OK)
                ELSE ZeroLog_segmentWriteEnd(Cur, pending[g].id))

\* AddSegmentAttribute up to its lookups of the id and of the key: they pass
\* exactly when the method returns nil
AddSegmentAttributeLookup(g) ==
  /\ InCrit(g)
  /\ step[g] = 1 /\ pending[g].op = "AddSegmentAttribute"
  /\ LET r == IF adapter = LocalAdapter
              THEN Local_AddSegmentAttribute(Cur, pending[g].id, pending[g].key, pending[g].val)
              ELSE ZeroLog_AddSegmentAttribute(Cur, pending[g].id, pending[g].key,
                                               pending[g].val)
     IN  IF r.err = OK THEN GoesOn(g, "assign") ELSE Returns(g, r)

\* t.segmentContainer.attributes[segmentID][key] = value
AddSegmentAttributeAssign(g) ==
  /\ Running
  /\ pc[g] = "assign"
  /\ LET bag == Get(attributes, pending[g].id, EmptyFn)
         key == pending[g].key
     IN  Returns(g, Ret([Cur EXCEPT !.attributes =
                           Put(@, pending[g].id,
                               [x \in (DOMAIN bag) \cup {key} |->
                                  IF x = key THEN pending[g].val ELSE bag[x]])], OK))

InitSame == \E a \in LogAdapters, lvl \in LogLevels : InitWith(a, lvl, Pair, Ids)

NextSame ==
  \E g \in Pair :
    \/ Prepare(g)
    \/ Invoke(g)
    \/ InvokedLock(g)
    \/ SegmentEndLookup(g)
    \/ SegmentEndWrite(g)
    \/ AddSegmentAttributeLookup(g)
    \/ AddSegmentAttributeAssign(g)

SpecSame == InitSame /\ [][NextSame]_vars

\* ------------------------------------------- a caller that sets the ids
\* one goroutine sets the trace id and the process id of a transaction of a
\* log adapter, starts it, calls the segment methods and ends it
SetTrace(g) ==
  /\ Idle(g)
  /\ \E t \in Traces :
       trace' = (IF adapter = LocalAdapter THEN Local_SetTrace(Cur, t)
                 ELSE ZeroLog_SetTrace(Cur, t)).trace
  /\ last' = Call(g, "SetTrace", NoId, NoName, "", 0, NoPayload, OK)
  /\ UNCHANGED <<adapter, configLogLevel, logLevel, processID, other, pending, mutex,
                 pc, step, txState>>

SetProcessID(g) ==
  /\ Idle(g)
  /\ \E id \in ProcessIDs :
       processID' = (IF adapter = LocalAdapter THEN Local_SetProcessID(Cur, id)
                     ELSE ZeroLog_SetProcessID(Cur, id)).processID
  /\ last' = Call(g, "SetProcessID", NoId, NoName, "", 0, NoPayload, OK)
  /\ UNCHANGED <<adapter, configLogLevel, logLevel, trace, other, pending, mutex,
                 pc, step, txState>>

Start(g) ==
  /\ Idle(g)
  /\ Commit(Ret(IF adapter = LocalAdapter THEN Local_Start(Cur) ELSE ZeroLog_Start(Cur), OK),
            Call(g, "Start", NoId, NoName, "", 0, NoPayload, OK))
  /\ Return(g)
  /\ Bounded

InitTrace ==
  \E a \in LogAdapters, lvl \in LogLevels : InitWith(a, lvl, {1}, Ids)

\* the stream is kept one record shorter here
TraceBounded == Len(out') < MaxOut

NextTrace ==
  \E g \in Goroutines :
    \/ Lock(g) /\ UNCHANGED step
    \/ SetTrace(g)
    \/ SetProcessID(g)
    \/ Start(g) /\ TraceBounded
    \/ SegmentStart(g) /\ TraceBounded
    \/ SegmentEnd(g) /\ TraceBounded
    \/ Error(g) /\ TraceBounded
    \/ Info(g) /\ TraceBounded
    \/ Done(g) /\ TraceBounded

SpecTrace == InitTrace /\ [][NextTrace]_vars

\* ------------------------------------------------------ two transactions
\* Goroutines work on two transactions the same driver made.  The variables
\* hold the first, `other' the second; the history variables follow the first.
OtherCur ==
  [segments |-> other.segments, attributes |-> other.attributes,
   logged |-> other.logged, txAttributes |-> other.txAttributes,
   trace |-> other.trace, processID |-> other.processID, out |-> other.out,
   closed |-> 0]

OtherCommit(c, holder) ==
  other' = [segments |-> c.segments, attributes |-> c.attributes, logged |-> c.logged,
            txAttributes |-> c.txAttributes, trace |-> c.trace,
            processID |-> c.processID, out |-> c.out, mutex |-> holder]

thisTransaction ==
  <<adapter, configLogLevel, logLevel, trace, processID, mutex, txState, last>>

\* other.segmentContainer.mutex.Lock()
OtherLock(g) ==
  /\ Idle(g)
  /\ other.mutex = NoProc
  /\ other' = [other EXCEPT !.mutex = g]
  /\ pc' = [pc EXCEPT ![g] = "crit-other"]
  /\ UNCHANGED <<thisTransaction, pending, step>>

\* the body of a locking method of the other transaction, with its Unlock
OtherBody(g) ==
  /\ Running
  /\ pc[g] = "crit-other" /\ other.mutex = g
  /\ \E id \in SegIds, name \in Names, k \in Keys, v \in Vals, p \in Payloads :
       \E r \in {SegmentStartAt(OtherCur, logLevel, id, name),
                  IF adapter = LocalAdapter THEN Local_AddSegmentAttribute(OtherCur, id, k, v)
                  ELSE ZeroLog_AddSegmentAttribute(OtherCur, id, k, v),
                  IF adapter = LocalAdapter THEN Local_SegmentEnd(OtherCur, id)
                  ELSE ZeroLog_SegmentEnd(OtherCur, id),
                  ErrorAt(OtherCur, id, p)} :
         OtherCommit(r.c, NoProc)
  /\ pc' = [pc EXCEPT ![g] = "idle"]
  /\ UNCHANGED <<thisTransaction, pending>>

\* the methods of the other transaction that take no lock
OtherUnlocked(g) ==
  /\ Idle(g)
  /\ \E t \in Traces, id \in ProcessIDs, k \in Keys, v \in Vals :
       \E c \in {Local_SetTrace(OtherCur, t), Local_SetProcessID(OtherCur, id),
                  Local_AddTransactionAttribute(OtherCur, k, v).c} :
         OtherCommit(c, other.mutex)
  /\ UNCHANGED <<thisTransaction, pc, pending>>

\* each goroutine makes up to MaxCalls calls
Counted(g) == step[g] < MaxCalls /\ step' = [step EXCEPT ![g] = @ + 1]

OnThis(g) ==
  \/ \E id \in SegIds, name \in Names : SegmentStartBody(g, id, name)
  \/ \E id \in SegIds : SegmentEndBody(g, id)
  \/ \E id \in SegIds, p \in Payloads : ErrorBody(g, id, p)
  \/ \E k \in Keys, v \in Vals : AddTransactionAttributeBody(g, k, v)

OnOther(g) == OtherBody(g) \/ OtherUnlocked(g)

InitTwo == \E a \in LogAdapters, lvl \in LogLevels : InitWith(a, lvl, Procs, Ids)

NextTwo ==
  \E g \in Procs :
    \/ step[g] < MaxCalls /\ Lock(g) /\ UNCHANGED step
    \/ step[g] < MaxCalls /\ OtherLock(g)
    \/ Counted(g) /\ OnThis(g)
    \/ Counted(g) /\ OnOther(g)

SpecTwo == InitTwo /\ [][NextTwo]_vars

\* ================================================================ claims
\* the records the step wrote
NewRecs == SubSeq(out', Len(out) + 1, Len(out'))
TrackerUnchanged == UNCHANGED <<segments, attributes, segmentsStartWasLogged, out>>
IsEndOf(r, id) == r.kind = "end" /\ r.id = id

\* C1: in the two log adapters, when Error (any verbosity) or Info (verbosity
\* info or debug) on an open id writes its message record, that record
\* is the last record the call writes and a start record of the id's current
\* open period stands strictly before it in the stream.
StartBeforeMessage ==
  [][\A g \in Goroutines, id \in SegIds, p \in Payloads :
       (/\ adapter \in LogAdapters
        /\ IsOpen(id)
        /\ ErrorBody(g, id, p) \/ (logLevel # logLevelError /\ InfoBody(g, id, p))
        /\ last'.err = OK)
       => /\ Len(NewRecs) >= 1
          /\ out'[Len(out')].kind = "message"
          /\ \E i \in periodStarts'[id] :
               i < Len(out') /\ out'[i].kind = "start" /\ out'[i].id = id]_vars

\* an Error call has just written a lazily emitted start record and its message
StartBeforeMessageWitness ==
  /\ adapter \in LogAdapters
  /\ logLevel = logLevelError
  /\ last.op = "Error" /\ last.err = OK
  /\ Len(out) >= 2
  /\ out[Len(out) - 1].kind = "start"
  /\ out[Len(out)].kind = "message"
  /\ out[Len(out) - 1].id = out[Len(out)].id

\* C2: N goroutines running SegmentStart, Info, SegmentEnd on distinct ids of
\* one transaction at verbosity info or debug: at most one goroutine is inside
\* a critical section, every goroutine finishes its three calls, and the
\* records of each id are exactly start, message, end in that order.
KindsOf(id) ==
  LET sel == SelectSeq(out, LAMBDA r : r.id = id)
  IN  [i \in 1..Len(sel) |-> sel[i].kind]
MutexOK ==
  /\ \A g, h \in Goroutines : pc[g] = "crit" /\ pc[h] = "crit" => g = h
  /\ \A g \in Goroutines : pc[g] = "crit" => mutex = g
AllDone == \A g \in Goroutines : step[g] = Len(Script) /\ pc[g] = "idle"
MainConcurrent ==
  /\ [](MutexOK /\ ~panicked)
  /\ [](\A id \in SegIds :
          \E n \in 0..3 : KindsOf(id) = SubSeq(<<"start", "message", "end">>, 1, n))
  /\ [](AllDone => \A id \in SegIds : KindsOf(id) = <<"start", "message", "end">>)
  /\ <>AllDone

\* all goroutines are done and their records interleaved
MainConcurrentWitness ==
  /\ AllDone
  /\ Len(out) = 3 * MainN
  /\ out[1].id # out[2].id

\* C3: at verbosity error, in the two log adapters, an open id has a start
\* record in its open period exactly if Error was called on it in that period
\* (never more than one), a successful SegmentEnd writes the id's end record
\* exactly in that case, and no other call writes an end record for the id.
AtErrorLevel == adapter \in LogAdapters /\ logLevel = logLevelError
SilentAtErrorLevel ==
  /\ [](AtErrorLevel =>
          \A id \in SegIds :
            IsOpen(id) => Cardinality(periodStarts[id]) = (IF msgCalled[id] THEN 1 ELSE 0))
  /\ [][AtErrorLevel =>
          \A id \in SegIds :
            IF IsOpen(id) /\ \E g \in Goroutines : SegmentEndBody(g, id)
            THEN /\ last'.err = OK
                 /\ Len(NewRecs) = (IF msgCalled[id] THEN 1 ELSE 0)
                 /\ \A i \in 1..Len(NewRecs) : IsEndOf(NewRecs[i], id)
            ELSE \A i \in 1..Len(NewRecs) : ~IsEndOf(NewRecs[i], id)]_vars

\* at verbosity error a period with an Error call has been ended
SilentAtErrorLevelWitness ==
  /\ AtErrorLevel
  /\ last.op = "SegmentEnd" /\ last.err = OK
  /\ Len(out) >= 2
  /\ out[Len(out)].kind = "end"
  /\ \E i \in 1..(Len(out) - 1) : out[i].kind = "start" /\ out[i].id = out[Len(out)].id

\* C4: at verbosity error, in the two log adapters, Info on any id, open or
\* not, returns nil, writes no record and leaves segments, segment attributes
\* and segmentsStartWasLogged unchanged.
InfoSuppressedAtErrorLevel ==
  [][\A g \in Goroutines, id \in SegIds, p \in Payloads :
       AtErrorLevel /\ InfoBody(g, id, p) => last'.err = OK /\ TrackerUnchanged]_vars

\* Info was called on an open id at verbosity error
InfoSuppressedAtErrorLevelWitness ==
  /\ AtErrorLevel
  /\ last.op = "Info" /\ last.err = OK
  /\ IsOpen(last.id)

\* C5: in the local adapter and both nrZerolog variants, an Error call whose
\* payload is read without error writes exactly one message record, and that
\* record is at error level.
ErrorNeverSuppressed ==
  [][\A g \in Goroutines, id \in SegIds, p \in Payloads :
       (/\ adapter \in {LocalAdapter, ZeroLogAdapter, OldZeroLogAdapter}
        /\ ErrorBody(g, id, p)
        /\ ~Read(p, ErrorBytesSize).err)
       => LET msgs == {i \in 1..Len(NewRecs) : NewRecs[i].kind = "message"}
          IN  /\ Cardinality(msgs) = 1
              /\ \A i \in msgs : NewRecs[i].level = "error"]_vars

\* C6: in the local, nrZerolog and APM adapters, SegmentEnd on an id that is
\* not open returns the segment-not-open error, writes no record and leaves
\* segments, segment attributes and segmentsStartWasLogged unchanged.
SegmentEndNotOpen ==
  [][\A g \in Goroutines, id \in SegIds :
       adapter \in Locking /\ ~IsOpen(id) /\ SegmentEndBody(g, id)
       => last'.err = ErrSegmentNotOpen /\ TrackerUnchanged]_vars

\* SegmentEnd was refused on an id that had been open and was ended before
SegmentEndNotOpenWitness ==
  /\ last.op = "SegmentEnd" /\ last.err = ErrSegmentNotOpen
  /\ \E i \in 1..Len(out) : out[i].kind \in {"end", "Segment.End"}

\* C7: in the local, nrZerolog and APM adapters, AddSegmentAttribute on an id
\* that is not open returns the segment-not-found error, makes no attribute
\* bag for the id and leaves the tracker and the stream unchanged.
AddSegmentAttributeNotFound ==
  [][\A g \in Goroutines, id \in SegIds, k \in Keys, v \in Vals :
       adapter \in Locking /\ ~IsOpen(id) /\ AddSegmentAttributeBody(g, id, k, v)
       => /\ last'.err = ErrSegmentNotFound
          /\ ~Has(attributes', id)
          /\ TrackerUnchanged]_vars

\* AddSegmentAttribute was refused on an id that had been open and was ended
AddSegmentAttributeNotFoundWitness ==
  /\ last.op = "AddSegmentAttribute" /\ last.err = ErrSegmentNotFound
  /\ \E i \in 1..Len(out) : out[i].kind \in {"end", "Segment.End"}

\* C8: a key set on an open id keeps its value as long as the id stays open,
\* whatever is called, and AddSegmentAttribute with that key returns the
\* attribute-already-set error and changes nothing.
HasKey(id, k) == Has(attributes, id) /\ k \in DOMAIN attributes.m[id]
SegmentAttributeSetOnce ==
  [][\A id \in SegIds, k \in Keys :
       IsOpen(id) /\ HasKey(id, k)
       => /\ IsOpen(id)' => HasKey(id, k)' /\ attributes'.m[id][k] = attributes.m[id][k]
          /\ \A g \in Goroutines, v \in Vals :
               AddSegmentAttributeBody(g, id, k, v)
               => last'.err = ErrAttributeAlreadySet /\ TrackerUnchanged]_vars

\* a second AddSegmentAttribute with a key already set was refused
SegmentAttributeSetOnceWitness ==
  /\ last.op = "AddSegmentAttribute" /\ last.err = ErrAttributeAlreadySet
  /\ IsOpen(last.id)
  /\ \E k \in Keys : HasKey(last.id, k)

\* C9: in the two log adapters an open id has at most one start record in its
\* open period, and exactly one once the lazy-start path was driven: by Error
\* or a not suppressed Info on it, or by its SegmentStart at verbosity debug.
LazyStartOnce ==
  adapter \in LogAdapters =>
    \A id \in SegIds :
      IsOpen(id) =>
        /\ Cardinality(periodStarts[id]) <= 1
        /\ msgCalled[id] \/ logLevel = logLevelDebug => Cardinality(periodStarts[id]) = 1
        /\ id \in segmentsStartWasLogged <=> periodStarts[id] # {}

\* two messages were written for an id that is still open, after its start record
LazyStartOnceWitness ==
  /\ adapter \in LogAdapters
  /\ \E id \in SegIds :
       /\ IsOpen(id)
       /\ periodStarts[id] # {}
       /\ \E i, j \in 1..Len(out) :
            /\ i < j
            /\ \A s \in periodStarts[id] : s < i
            /\ out[i].kind = "message" /\ out[i].id = id
            /\ out[j].kind = "message" /\ out[j].id = id

\* C10: in the two log adapters SegmentEnd on an open id returns nil, writes
\* exactly one end record for the id if a start record was written in the
\* id's open period and no record otherwise, and leaves the id absent from
\* segments, segment attributes and segmentsStartWasLogged.
SegmentEndFreesId ==
  [][\A g \in Goroutines, id \in SegIds :
       adapter \in LogAdapters /\ IsOpen(id) /\ SegmentEndBody(g, id)
       => /\ last'.err = OK
          /\ Len(NewRecs) = (IF periodStarts[id] = {} THEN 0 ELSE 1)
          /\ \A i \in 1..Len(NewRecs) : IsEndOf(NewRecs[i], id)
          /\ ~Has(segments', id)
          /\ ~Has(attributes', id)
          /\ id \notin segmentsStartWasLogged']_vars

\* an emitted segment that had an attribute was ended
SegmentEndFreesIdWitness ==
  /\ adapter \in LogAdapters
  /\ last.op = "SegmentEnd" /\ last.err = OK
  /\ Len(out) >= 1
  /\ out[Len(out)].kind = "end"
  /\ \E i \in 1..Len(out) : out[i].attrs # EmptyFn

\* C11: after Erase the segment operations behave as on a freshly constructed
\* transaction: the operation that follows an Erase does not panic, and a
\* SegmentStart that follows it returns nil and leaves the id open.
SegmentOps == {"SegmentStart", "AddSegmentAttribute", "SegmentEnd", "Info", "Error"}
EraseLeavesFreshTransaction ==
  [][(adapter \in Locking /\ last.op = "Erase" /\ last'.op \in SegmentOps)
       => (/\ ~panicked'
           /\ (last'.op = "SegmentStart"
                 => (last'.err = OK /\ Has(segments', last'.id))))]_vars

\* C12: in the two log adapters Done writes one transaction end record and
\* leaves the transaction attributes, segments, segment attributes and
\* segmentsStartWasLogged without entries.
DoneErasesEverything ==
  [][\A g \in Goroutines :
       adapter \in LogAdapters /\ Done(g)
       => /\ Len(NewRecs) = 1 /\ NewRecs[1].kind = "txend"
          /\ DOMAIN txAttributes'.m = {}
          /\ DOMAIN segments'.m = {}
          /\ DOMAIN attributes'.m = {}
          /\ segmentsStartWasLogged' = {}]_vars

\* C13: in the local, nrZerolog and APM adapters every call of Info and of
\* Error closes the payload source it was given exactly once before it
\* returns, at every verbosity and whether or not the read succeeds.
PayloadClosedOnce ==
  [][\A g \in Goroutines, id \in SegIds, p \in Payloads :
       adapter \in Locking /\ (InfoBody(g, id, p) \/ ErrorBody(g, id, p))
       => last'.closed = 1]_vars

\* C14: in the two log adapters at most one goroutine at a time is inside the
\* critical section of SegmentStart, AddSegmentAttribute, SegmentEnd, Info or
\* Error, and each of these methods runs its body, with every record it
\* writes, while its goroutine holds the mutex; the one body that runs
\* without it is Info at verbosity error, which touches nothing.
TrackerUnderLock ==
  /\ [](adapter \in LogAdapters => MutexOK)
  /\ [][\A g \in Goroutines :
          adapter \in LogAdapters /\ AnySegmentOp(g)
          => \/ mutex = g /\ pc[g] = "crit"
             \/ /\ last'.op = "Info" /\ Suppressed
                /\ last'.err = OK /\ TrackerUnchanged]_vars

\* a goroutine holds the mutex after an Error call wrote its start record and
\* message under it
TrackerUnderLockWitness ==
  /\ adapter \in LogAdapters
  /\ last.op = "Error" /\ last.err = OK
  /\ Len(out) >= 2 /\ out[Len(out)].kind = "message"
  /\ \E g \in Goroutines : pc[g] = "crit" /\ mutex = g

\* C15: in the two log adapters, under fair scheduling, every goroutine gets
\* through all its calls of the five segment methods; the mutex is held
\* exactly by a goroutine inside a critical section, so it is free after each
\* return, with or without an error, and is never requested by its holder.
CallsDone == \A g \in Goroutines : step[g] = MaxCalls /\ pc[g] = "idle"
NoOperationBlocks ==
  /\ [](\A g \in Goroutines : mutex = g <=> pc[g] = "crit")
  /\ [](mutex # NoProc => mutex \in Goroutines /\ pc[mutex] = "crit")
  /\ [][\A g \in Goroutines :
          CallBody(g) => mutex' = (IF mutex = g THEN NoProc ELSE mutex)]_vars
  /\ [][\A g \in Goroutines : CallLock(g) => mutex # g]_vars
  /\ \A g \in Procs : (pc[g] = "crit") ~> (pc[g] = "idle")
  /\ <>[]CallsDone

\* all calls were made, the last one returned an error and the mutex is free
NoOperationBlocksWitness ==
  /\ CallsDone
  /\ last.err \notin {OK, Panic}
  /\ mutex = NoProc

\* C16: in the two log adapters an id that is not open has no entry in
\* segmentsStartWasLogged and no attribute bag; SegmentStart on it at verbosity
\* error or info writes nothing and leaves it open, unemitted, without a bag,
\* under the name given; a key not in the bag of an open id can be set; and
\* the first Error or not suppressed Info on an open unemitted id writes first
\* the start record with the id and its current name.
FirstRecIsStart(id) ==
  /\ Len(NewRecs) >= 1
  /\ NewRecs[1].kind = "start" /\ NewRecs[1].id = id /\ NewRecs[1].name = segments.m[id]
FreedIdReusable ==
  /\ [](\A id \in SegIds :
          ~IsOpen(id) => id \notin segmentsStartWasLogged /\ ~Has(attributes, id))
  /\ [][\A g \in Goroutines, id \in SegIds :
          /\ \A name \in SeqNames :
               ~IsOpen(id) /\ logLevel # logLevelDebug /\ SegmentStartBody(g, id, name)
               => /\ last'.err = OK /\ NewRecs = <<>>
                  /\ Has(segments', id) /\ segments'.m[id] = name
                  /\ id \notin segmentsStartWasLogged' /\ ~Has(attributes', id)
          /\ \A k \in Keys, v \in Vals :
               IsOpen(id) /\ ~HasKey(id, k) /\ AddSegmentAttributeBody(g, id, k, v)
               => last'.err = OK /\ attributes'.m[id][k] = v
          /\ \A p \in Payloads :
               /\ IsOpen(id) /\ id \notin segmentsStartWasLogged
               /\ ErrorBody(g, id, p) \/ (~Suppressed /\ InfoBody(g, id, p))
               => FirstRecIsStart(id)]_vars

\* an id was ended and started again under another name, and the start record
\* of its second open period carries that name
FreedIdReusableWitness ==
  /\ logLevel # logLevelDebug
  /\ \E i, j \in 1..Len(out) :
       /\ i < j
       /\ out[i].kind = "end" /\ out[j].kind = "start"
       /\ out[i].id = out[j].id /\ out[i].name # out[j].name
       /\ IsOpen(out[j].id) /\ segments.m[out[j].id] = out[j].name

\* C17: in the two log adapters SegmentStart on an open id returns nil, writes
\* no record, stores the new name and changes nothing else: the attribute bags
\* and segmentsStartWasLogged stay as they were; the end record SegmentEnd
\* writes carries the name stored last.
RestartRenamesOnly ==
  [][\A g \in Goroutines, id \in SegIds :
       /\ \A name \in SeqNames :
            IsOpen(id) /\ SegmentStartBody(g, id, name)
            => /\ last'.err = OK /\ NewRecs = <<>>
               /\ segments' = Put(segments, id, name)
               /\ attributes' = attributes
               /\ segmentsStartWasLogged' = segmentsStartWasLogged
       /\ IsOpen(id) /\ SegmentEndBody(g, id)
          => \A i \in 1..Len(NewRecs) :
               IsEndOf(NewRecs[i], id) /\ NewRecs[i].name = segments.m[id]]_vars

\* an emitted segment with an attribute was renamed while open, and its end
\* record carries the new name
RestartRenamesOnlyWitness ==
  /\ last.op = "SegmentEnd" /\ last.err = OK
  /\ \E i, j \in 1..Len(out) :
       /\ i < j /\ j = Len(out)
       /\ out[i].kind = "start" /\ out[j].kind = "end"
       /\ out[i].id = out[j].id /\ out[i].name # out[j].name
       /\ \A m \in (i + 1)..(j - 1) : out[m].kind = "message" /\ out[m].attrs # EmptyFn

\* C18: in the two log adapters SegmentStart on a transaction that was not
\* erased returns nil and leaves the id open under the name given, at every
\* verbosity; on an id that was not open it writes, at verbosity debug, exactly
\* the id's start record and marks the id in segmentsStartWasLogged, and at
\* verbosity error and info it writes nothing and leaves the id unmarked.
SegmentStartRegisters ==
  [][\A g \in Goroutines, id \in SegIds, name \in Names :
       (adapter \in LogAdapters /\ ~segments.nil /\ SegmentStartBody(g, id, name))
       => /\ last'.err = OK
          /\ Has(segments', id) /\ segments'.m[id] = name
          /\ ~IsOpen(id) =>
               IF logLevel = logLevelDebug
               THEN /\ Len(NewRecs) = 1
                    /\ NewRecs[1].kind = "start"
                    /\ NewRecs[1].id = id /\ NewRecs[1].name = name
                    /\ id \in segmentsStartWasLogged'
               ELSE /\ NewRecs = <<>>
                    /\ id \notin segmentsStartWasLogged']_vars

\* at verbosity debug SegmentStart has just written the start record of the id
SegmentStartRegistersWitness ==
  /\ adapter \in LogAdapters /\ logLevel = logLevelDebug
  /\ last.op = "SegmentStart" /\ last.err = OK
  /\ Len(out) >= 1
  /\ out[Len(out)].kind = "start" /\ out[Len(out)].id = last.id
  /\ IsOpen(last.id) /\ last.id \in segmentsStartWasLogged

\* C19 as stated: in the two log adapters every method gives the same
\* records, the same tracker state and the same result under verbosity info
\* as under verbosity debug, from every state.  (AddSegmentAttribute,
\* SegmentEnd and Error do not read logLevel; SegmentStart and Info do.)
InfoDebugSame ==
  adapter \in LogAdapters =>
    \A id \in SegIds :
      /\ \A name \in Names :
           SegmentStartAt(Cur, logLevelInfo, id, name)
             = SegmentStartAt(Cur, logLevelDebug, id, name)
      /\ \A p \in Payloads :
           InfoAt(Cur, logLevelInfo, id, p) = InfoAt(Cur, logLevelDebug, id, p)

\* C19 amended: verbosity info and debug differ in SegmentStart and nowhere
\* else.  From every state Info gives the same under both, and SegmentStart
\* under debug is SegmentStart under info followed by the lazy start.  So at
\* debug every open id has its start record from SegmentStart on, while at
\* info it has one exactly if Error or Info was called on it.
InfoDebugDifferAtStart ==
  adapter \in LogAdapters =>
    \A id \in SegIds :
      /\ \A p \in Payloads :
           InfoAt(Cur, logLevelInfo, id, p) = InfoAt(Cur, logLevelDebug, id, p)
      /\ \A name \in Names :
           ~segments.nil =>
             SegmentStartAt(Cur, logLevelDebug, id, name)
               = segmentWriteStartAt(SegmentStartAt(Cur, logLevelInfo, id, name).c, id)
      /\ (logLevel = logLevelDebug /\ IsOpen(id)) => Cardinality(periodStarts[id]) = 1
      /\ (logLevel = logLevelInfo /\ IsOpen(id))
           => Cardinality(periodStarts[id]) = (IF msgCalled[id] THEN 1 ELSE 0)

\* at verbosity info a segment was started and ended without any record;
\* SegmentStart under debug would have written its start record
InfoDebugDifferAtStartWitness ==
  /\ adapter \in LogAdapters /\ logLevel = logLevelInfo
  /\ last.op = "SegmentEnd" /\ last.err = OK
  /\ out = <<>>
  /\ \E name \in Names :
       Len(SegmentStartAt(Cur, logLevelDebug, last.id, name).c.out) = 1

\* C20: in the two log adapters, whenever Info or Error writes its message
\* record, the text in the record is the first min(L, N) bytes of the
\* payload, L the payload's length and N telemetry.ErrorBytesSize.
PayloadCapped ==
  [][\A g \in Goroutines, id \in SegIds, p \in Payloads :
       (/\ adapter \in LogAdapters
        /\ InfoBody(g, id, p) \/ ErrorBody(g, id, p)
        /\ last'.err = OK
        /\ Len(NewRecs) >= 1)
       => out'[Len(out')].n = Min(p.len, ErrorBytesSize)]_vars

\* the records the step wrote, as a set of positions in the stream
NewPos == (Len(out) + 1)..Len(out')

\* C21: in the two log adapters, while the trace id is the empty string no
\* record that is written has a trace id field, and Error and Info return
\* what they return when a trace id is set.
EmptyTraceOmitted ==
  [][(adapter \in LogAdapters /\ trace = EmptyString)
       => /\ \A i \in NewPos : out'[i].trace = NoField
          /\ \A id \in SegIds, p \in Payloads :
               /\ ErrorAt(Cur, id, p).err
                    = ErrorAt([Cur EXCEPT !.trace = "trace-1"], id, p).err
               /\ InfoAt(Cur, logLevel, id, p).err
                    = InfoAt([Cur EXCEPT !.trace = "trace-1"], logLevel, id, p).err]_vars

\* C22: in the two log adapters every segment start, segment end, message
\* and transaction end record carries the transaction's process id, and its
\* trace id when that is not empty.
RecordsCarryIDs ==
  [][(adapter \in LogAdapters)
       => \A i \in NewPos :
            out'[i].kind # "txstart"
              => /\ out'[i].pid = processID
                 /\ trace # EmptyString => out'[i].trace = trace]_vars

\* C23: in the two log adapters Done writes no segment end record, and every
\* segment that is open when Done is called is still registered as open
\* after it, so that SegmentEnd on it does not fail with segment-not-open.
DoneKeepsLeaks ==
  [][\A g \in Goroutines :
       (adapter \in LogAdapters /\ Done(g))
       => /\ \A i \in NewPos : out'[i].kind # "end"
          /\ \A id \in SegIds : IsOpen(id) => Has(segments', id)]_vars

NoAttributeRace ==
  [][\A g \in Goroutines, id \in SegIds, p \in Payloads :
       (/\ adapter = LocalAdapter
        /\ ErrorBody(g, id, p) \/ (logLevel # logLevelError /\ InfoBody(g, id, p)))
       => \A h \in Goroutines \ {g} : pc[h] # "attr"]_vars

\* C26: with two transactions of a log adapter, a step of a method of one
\* leaves the segments, segment attributes, start-emitted set, transaction
\* attributes, trace id, process id and mutex of the other as they were, and
\* a goroutine that wants the free mutex of one can take it whoever holds the
\* mutex of the other.
TransactionsIndependent ==
  /\ [][\A g \in Goroutines : (Lock(g) \/ OnThis(g)) => other' = other]_vars
  /\ [][\A g \in Goroutines :
          (OtherLock(g) \/ OnOther(g))
          => UNCHANGED <<segments, attributes, segmentsStartWasLogged, txAttributes,
                         trace, processID, mutex, out>>]_vars
  /\ [](\A g \in Goroutines :
          /\ (Idle(g) /\ mutex = NoProc) => ENABLED Lock(g)
          /\ (Idle(g) /\ other.mutex = NoProc) => ENABLED OtherLock(g))

\* both mutexes are held, by different goroutines, and both transactions
\* have an open segment
TransactionsIndependentWitness ==
  /\ mutex # NoProc /\ other.mutex # NoProc /\ mutex # other.mutex
  /\ \E id \in SegIds : Has(segments, id)
  /\ \E id \in SegIds : Has(other.segments, id)

\* C27: the effective verbosity is the configured value when that is error,
\* info or debug, and error for every other configured value, the empty
\* string included; with such a value Info writes nothing and SegmentStart
\* writes no start record.
VerbositySelection ==
  /\ [](logLevel = (IF configLogLevel \in {"error", "info", "debug"}
                    THEN configLogLevel ELSE "error"))
  /\ [][\A g \in Goroutines, id \in SegIds, p \in Payloads, name \in Names :
          (/\ configLogLevel \notin {"info", "debug"}
           /\ InfoBody(g, id, p) \/ SegmentStartBody(g, id, name))
          => out' = out]_vars

\* the configured value is not recognized, and Info was dropped on a segment
\* that is open
VerbositySelectionWitness ==
  /\ configLogLevel \notin LogLevels
  /\ logLevel = logLevelError
  /\ last.op = "Info" /\ IsOpen(last.id) /\ out = <<>>

\* C28: on a NopTransaction every call of SegmentStart, AddSegmentAttribute,
\* SegmentEnd, Error, Info, AddTransactionAttribute, Done and Erase returns
\* nil, with any arguments and in any order, and no record is ever written.
NopSucceeds ==
  /\ [](adapter = NopAdapter => (out = <<>> /\ ~panicked /\ last.err = OK))
  /\ [][\A g \in Goroutines : NopCall(g) => (last'.err = OK /\ out' = out)]_vars

\* one goroutine has made all its calls, the other none, and the last call
\* was a SegmentEnd that returned nil
NopSucceedsWitness ==
  /\ adapter = NopAdapter
  /\ \E g \in Goroutines :
       /\ step[g] = MaxCalls
       /\ \A h \in Goroutines \ {g} : step[h] = 0
  /\ last.op = "SegmentEnd" /\ last.err = OK

\* C29 as stated: in the two log adapters, Error, and Info at verbosity info
\* or debug, called with a readable payload on an id that is not open or is
\* the empty id, returns nil and writes exactly one record, its message,
\* without segment name and attributes, and leaves segments, segment
\* attributes and segmentsStartWasLogged as they were.
MessageOutsideSegmentOrEmptyId ==
  [][\A g \in Goroutines, id \in SegIds, p \in Payloads :
       (/\ adapter \in LogAdapters
        /\ ~IsOpen(id) \/ id = EmptyId
        /\ p.len > 0 /\ ~p.fail
        /\ ErrorBody(g, id, p) \/ (logLevel # logLevelError /\ InfoBody(g, id, p)))
       => /\ last'.err = OK
          /\ Len(NewRecs) = 1
          /\ NewRecs[1].kind = "message"
          /\ NewRecs[1].name = NoName /\ NewRecs[1].attrs = EmptyFn
          /\ UNCHANGED <<segments, attributes, segmentsStartWasLogged>>]_vars

\* C29 amended: the above holds for every id that is not open, the empty id
\* included.  The empty id is an id like any other to the tracker: once
\* SegmentStart was called on it, it is open, and the first Error or not
\* suppressed Info on it writes its start record before the message.
MessageOutsideSegment ==
  [][\A g \in Goroutines, id \in SegIds, p \in Payloads :
       (/\ adapter \in LogAdapters
        /\ p.len > 0 /\ ~p.fail
        /\ ErrorBody(g, id, p) \/ (logLevel # logLevelError /\ InfoBody(g, id, p)))
       => /\ ~IsOpen(id)
               => /\ last'.err = OK
                  /\ Len(NewRecs) = 1
                  /\ NewRecs[1].kind = "message"
                  /\ NewRecs[1].name = NoName /\ NewRecs[1].attrs = EmptyFn
                  /\ UNCHANGED <<segments, attributes, segmentsStartWasLogged>>
          /\ (IsOpen(id) /\ id = EmptyId /\ id \notin segmentsStartWasLogged)
               => /\ last'.err = OK
                  /\ Len(NewRecs) = 2
                  /\ NewRecs[1].kind = "start" /\ NewRecs[1].id = EmptyId
                  /\ EmptyId \in segmentsStartWasLogged']_vars

\* Error returned nil on an id that is not open, and its message is the only
\* record of the stream
MessageOutsideSegmentWitness ==
  /\ adapter \in LogAdapters
  /\ last.op = "Error" /\ last.err = OK /\ ~IsOpen(last.id)
  /\ Len(out) = 1 /\ out[1].kind = "message" /\ out[1].name = NoName

\* C30: in the two log adapters, when Error or Info writes the start record
\* of its id lazily, the goroutine holds the mutex from that record to its
\* message, and no record of a segment operation (start, end, message) of
\* another goroutine stands between the two in the stream; the message
\* follows as the next record the call writes.
StartAndMessageTogether ==
  [][\A g \in Goroutines :
       (MsgWrite(g) /\ pending[g].lazy)
       => /\ mutex = g
          /\ out[pending[g].pos].kind = "start" /\ out[pending[g].pos].id = pending[g].id
          /\ \A i \in (pending[g].pos + 1)..Len(out) : out[i].kind = "txend"
          /\ last'.err = OK
               => (Len(out') = Len(out) + 1 /\ out'[Len(out')].kind = "message")]_vars

\* a call wrote its start record and its message, and the transaction end
\* line of a Done that another goroutine called meanwhile stands between them
StartAndMessageTogetherWitness ==
  /\ last.op \in {"Error", "Info"} /\ last.err = OK
  /\ Len(out) = 3
  /\ out[1].kind = "start" /\ out[2].kind = "txend" /\ out[3].kind = "message"
  /\ out[1].id = last.id

\* the call of the step runs the locked path of Error or Info on id
MessageCall(g, id) ==
  /\ adapter \in LogAdapters
  /\ InCrit(g)
  /\ \E p \in Payloads : ErrorBody(g, id, p) \/ InfoBody(g, id, p)
\* the call of the step is a SegmentEnd whose segmentWriteEnd returns an error
SegmentWriteEndFails(g, id) ==
  /\ adapter \in LogAdapters
  /\ IsOpen(id)
  /\ SegmentEndBody(g, id)
  /\ (IF adapter = LocalAdapter THEN Local_segmentWriteEnd(Cur, id)
      ELSE ZeroLog_segmentWriteEnd(Cur, id)).err # OK
\* C31: in the two log adapters no call makes segmentWriteStart take its
\* "segment name not found" branch or segmentWriteEnd its second "segment is
\* not open" branch, and no call returns either error.
NameMissingUnreachable ==
  [][\A g \in Goroutines, id \in SegIds :
       /\ last'.err # ErrSegmentNameMissing
       /\ ~SegmentWriteEndFails(g, id)
       /\ MessageCall(g, id)
            => segmentWriteStartAt(Cur, id).err # ErrSegmentNameMissing]_vars

\* C31, amended: in the two log adapters no call returns the "segment name not
\* found" error, segmentWriteEnd, which only SegmentEnd calls and only on an
\* open id, never fails, and segmentWriteStart takes its "segment name not
\* found" branch exactly when Error or a not suppressed Info is called on an
\* id that is neither open nor in segmentsStartWasLogged; that call drops the
\* error, writes no start record and goes on to its message.
NameMissingOnlyDropped ==
  [][\A g \in Goroutines, id \in SegIds :
       /\ last'.err # ErrSegmentNameMissing
       /\ ~SegmentWriteEndFails(g, id)
       /\ MessageCall(g, id)
            => /\ segmentWriteStartAt(Cur, id).err = ErrSegmentNameMissing
                    <=> (~IsOpen(id) /\ id \notin segmentsStartWasLogged)
               /\ segmentWriteStartAt(Cur, id).err = ErrSegmentNameMissing
                    => /\ \A i \in 1..Len(NewRecs) : NewRecs[i].kind = "message"
                       /\ last'.err \in {OK, ErrRead}]_vars

\* Error on an id that was never opened has returned nil after its message,
\* the only record of the stream
NameMissingOnlyDroppedWitness ==
  /\ adapter \in LogAdapters
  /\ last.op = "Error" /\ last.err = OK
  /\ ~IsOpen(last.id) /\ last.id \notin segmentsStartWasLogged
  /\ Len(out) = 1 /\ out[1].kind = "message"

\* C32: in every state a single caller reaches with SegmentStart,
\* AddSegmentAttribute, SegmentEnd, Info and Error on a transaction of a log
\* adapter, every id in segmentsStartWasLogged is a key of segments, and
\* every id that has a segment attribute bag is a key of segments.
TrackerContained ==
  /\ \A id \in segmentsStartWasLogged : Has(segments, id)
  /\ \A id \in DOMAIN attributes.m : Has(segments, id)

\* an id that was started, written and ended before is open again, with its
\* start record written and an attribute set
TrackerContainedWitness ==
  /\ \E id \in SegIds :
       /\ id \in segmentsStartWasLogged
       /\ Has(attributes, id) /\ DOMAIN attributes.m[id] # {}
       /\ \E i \in 1..Len(out) : IsEndOf(out[i], id)
  /\ last.op = "AddSegmentAttribute" /\ last.err = OK

\* the kinds of the start and end records of id, in stream order
StartsAndEnds(id) ==
  LET sel == SelectSeq(out, LAMBDA r : r.id = id /\ r.kind \in {"start", "end"})
  IN  [i \in 1..Len(sel) |-> sel[i].kind]

\* C33: for a single caller of the five segment methods of a log adapter, the
\* start and end records of every id alternate in the stream, beginning with
\* a start record, and the id has one start record more than end records
\* exactly while it is in segmentsStartWasLogged, and as many otherwise.
StartEndBalanced ==
  \A id \in SegIds :
    LET se == StartsAndEnds(id)
    IN  /\ \A i \in 1..Len(se) : se[i] = (IF i % 2 = 1 THEN "start" ELSE "end")
        /\ Len(se) % 2 = (IF id \in segmentsStartWasLogged THEN 1 ELSE 0)

\* an id is in its second written period: start, end, start
StartEndBalancedWitness ==
  \E id \in SegIds :
    /\ StartsAndEnds(id) = <<"start", "end", "start">>
    /\ id \in segmentsStartWasLogged

\* C34: when two goroutines call SegmentEnd concurrently on one open id, one
\* call returns nil, the other the segment-not-open error, and at most one end
\* record of the id is written (exactly one when its start record was); when
\* they call AddSegmentAttribute concurrently on one open id with the same
\* key, not set before, one call returns nil, the other the
\* attribute-already-set error, and the key holds the value of the call that
\* returned nil.  Stated at the return of the second call, when last is the
\* first call's return.
EndsOf(id) == {i \in 1..Len(out) : IsEndOf(out[i], id)}
SameIdLinearized ==
  [][\A g, h \in Goroutines :
       (g # h /\ step[h] = 2 /\ step[g] = 1 /\ step'[g] = 2)
       => LET id == pending[g].id
              k == pending[g].key
          IN  /\ (last.err = OK) # (last'.err = OK)
              /\ pending[g].op = "SegmentEnd"
                   => /\ {last.err, last'.err} = {OK, ErrSegmentNotOpen}
                      /\ Cardinality(EndsOf(id)') <= 1
                      /\ (\E i \in 1..Len(out) : out[i].kind = "start" /\ out[i].id = id)
                           => Cardinality(EndsOf(id)') = 1
                      /\ ~IsOpen(id)'
              /\ pending[g].op = "AddSegmentAttribute"
                   => /\ {last.err, last'.err} = {OK, ErrAttributeAlreadySet}
                      /\ Has(attributes', id) /\ k \in DOMAIN attributes'.m[id]
                      /\ attributes'.m[id][k] =
                           (IF last.err = OK THEN pending[h].val ELSE pending[g].val)]_vars

\* both SegmentEnd calls on an id with a start record have returned, the
\* second with the segment-not-open error, and the stream has one end record
SameIdLinearizedWitness ==
  /\ \A g \in Goroutines : step[g] = 2 /\ pending[g].op = "SegmentEnd"
  /\ last.op = "SegmentEnd" /\ last.err = ErrSegmentNotOpen
  /\ Cardinality(EndsOf(last.id)) = 1

\* the read of the payload fails: Read also on an exhausted source, ReadAll
\* (Info of the local adapter) only when the source fails
ReadFails(op, p) ==
  IF adapter = LocalAdapter /\ op = "Info" THEN ReadAll(p).err
  ELSE Read(p, ErrorBytesSize).err

\* C35: in the two log adapters, when Error, or Info at verbosity info or
\* debug, is called on an open id whose start record is not written and the
\* read of the payload fails, the call returns the read error, the only
\* record it writes is the id's start record, the id stays open and is in
\* segmentsStartWasLogged, the mutex is free again and the payload source was
\* closed once; a SegmentEnd on an open id in segmentsStartWasLogged writes
\* the id's end record.
ReadFailureAfterLazyStart ==
  [][\A g \in Goroutines, id \in SegIds :
       /\ \A p \in Payloads :
            (/\ adapter \in LogAdapters
             /\ IsOpen(id) /\ id \notin segmentsStartWasLogged
             /\ \/ ErrorBody(g, id, p) /\ ReadFails("Error", p)
                \/ logLevel # logLevelError /\ InfoBody(g, id, p) /\ ReadFails("Info", p))
            => /\ last'.err = ErrRead
               /\ Len(NewRecs) = 1
               /\ NewRecs[1].kind = "start" /\ NewRecs[1].id = id
               /\ IsOpen(id)' /\ id \in segmentsStartWasLogged'
               /\ mutex' = NoProc /\ pc'[g] = "idle"
               /\ last'.closed = 1
       /\ (/\ adapter \in LogAdapters
           /\ IsOpen(id) /\ id \in segmentsStartWasLogged
           /\ SegmentEndBody(g, id))
          => /\ last'.err = OK
             /\ Len(NewRecs) = 1 /\ IsEndOf(NewRecs[1], id)]_vars

\* at verbosity error an id has a start record directly followed by its end
\* record: the Error that wrote the start record wrote no message
ReadFailureAfterLazyStartWitness ==
  /\ AtErrorLevel
  /\ last.op = "SegmentEnd" /\ last.err = OK
  /\ Len(out) >= 2
  /\ out[Len(out) - 1].kind = "start" /\ out[Len(out) - 1].id = last.id
  /\ IsEndOf(out[Len(out)], last.id)

\* the vendor segments started so far, those segments holds, and those that
\* are neither held nor ended
StartedSegments == {i \in 1..Len(out) : out[i].kind = "StartSegment"}
EndCalls(h) == {i \in 1..Len(out) : out[i].kind = "Segment.End" /\ out[i].seg = h}
StoredSegments == {segments.m[id].seg : id \in DOMAIN segments.m}
ReplacedSegments == {h \in StartedSegments : h \notin StoredSegments /\ EndCalls(h) = {}}

\* C36: in the APM adapter SegmentStart starts a new vendor segment and stores
\* it under the id; on an open id the vendor segment stored before is
\* replaced without an End call, on an id that is not open nothing is
\* replaced; SegmentEnd on an open id makes one End call, on the vendor segment
\* stored last, and the id is not open afterwards; a vendor segment that is
\* neither stored nor ended stays so whatever is called; no vendor segment is
\* ended twice and none that is stored is ended.
VendorSegmentReplaced ==
  /\ [][adapter = APMAdapter =>
          \A g \in Goroutines, id \in SegIds :
            /\ \A name \in Names :
                 SegmentStartBody(g, id, name)
                 => /\ last'.err = OK
                    /\ Len(NewRecs) = 1
                    /\ NewRecs[1].kind = "StartSegment" /\ NewRecs[1].seg = Len(out')
                    /\ segments'.m[id] = [name |-> name, seg |-> Len(out')]
                    /\ IF IsOpen(id)
                       THEN ReplacedSegments' = ReplacedSegments \cup {segments.m[id].seg}
                       ELSE ReplacedSegments' = ReplacedSegments
            /\ (IsOpen(id) /\ SegmentEndBody(g, id))
               => /\ last'.err = OK
                  /\ Len(NewRecs) = 1
                  /\ NewRecs[1].kind = "Segment.End"
                  /\ NewRecs[1].seg = segments.m[id].seg
                  /\ ~IsOpen(id)'
            /\ \A h \in ReplacedSegments : h \in ReplacedSegments']_vars
  /\ [](adapter = APMAdapter =>
          \A h \in StartedSegments :
            /\ Cardinality(EndCalls(h)) <= 1
            /\ h \in StoredSegments => EndCalls(h) = {})

\* an id was started twice and ended: the End call was made on the second
\* vendor segment, the first is neither stored nor ended
VendorSegmentReplacedWitness ==
  /\ adapter = APMAdapter
  /\ last.op = "SegmentEnd" /\ last.err = OK
  /\ Len(out) = 3
  /\ out[1].kind = "StartSegment" /\ out[2].kind = "StartSegment"
  /\ out[3].kind = "Segment.End" /\ out[3].seg = 2
  /\ ReplacedSegments = {1}

====
